---- MODULE Spec2Model ----
(***************************************************************************)
(* A model of the conversational form engine of the Unite Us demo chatbot: *)
(* the rule-based ChatbotEngine of chatbot_engine.py and the               *)
(* language-service-driven ChatbotEngine of chatbot_engine_new.py.         *)
(*                                                                         *)
(* Python strings are modelled as sequences of one-character strings, so   *)
(* that lower(), strip(), the `in` substring test and the regular          *)
(* expressions of the source are computed, not assumed.                    *)
(***************************************************************************)
EXTENDS Integers, Sequences, FiniteSets, TLC

(***************************************************************************)
(* Characters and the str methods the engines use.                         *)
(***************************************************************************)
UpperLetters == <<"A","B","C","D","E","F","G","H","I","J","K","L","M",
                  "N","O","P","Q","R","S","T","U","V","W","X","Y","Z">>
LowerLetters == <<"a","b","c","d","e","f","g","h","i","j","k","l","m",
                  "n","o","p","q","r","s","t","u","v","w","x","y","z">>

Range(f) == {f[i] : i \in DOMAIN f}

UpperSet == Range(UpperLetters)
LowerSet == Range(LowerLetters)
LetterSet == UpperSet \cup LowerSet
DigitSet == {"0","1","2","3","4","5","6","7","8","9"}
SpaceSet == {" ", "\t", "\n"}
QuoteSet == {"'", "\""}
PunctSet == {".", ",", "_", "%", "+", "-", "@", "(", ")", "/", "$", "?", "!", "=", ":"}
AllChars == LetterSet \cup DigitSet \cup SpaceSet \cup QuoteSet \cup PunctSet

\* Python's None: in an Optional[str] field (a value no string equals), and as
\* an object reference (current_question, current_template)
None == <<"None">>
Null == "None"

\* str.lower() on one character
LowerChar ==
    [c \in AllChars |->
        IF c \in UpperSet
        THEN LowerLetters[CHOOSE i \in DOMAIN UpperLetters : UpperLetters[i] = c]
        ELSE c]

\* str.lower()
Lower(s) == [i \in 1..Len(s) |-> LowerChar[s[i]]]

\* str.strip(): drops leading and trailing whitespace
Strip(s) ==
    LET keep == {i \in 1..Len(s) : s[i] \notin SpaceSet}
    IN IF keep = {} THEN <<>>
       ELSE LET lo == CHOOSE i \in keep : \A j \in keep : i <= j
                hi == CHOOSE i \in keep : \A j \in keep : j <= i
            IN SubSeq(s, lo, hi)

\* the substring occurs at offset p (0-based) of s
OccursAt(sub, s, p) ==
    /\ p + Len(sub) <= Len(s)
    /\ \A j \in 1..Len(sub) : s[p + j] = sub[j]

\* Python's `sub in s` on strings
Contains(s, sub) == \E p \in 0..(Len(s) - Len(sub)) : OccursAt(sub, s, p)

\* str.startswith
StartsWith(s, pre) == OccursAt(pre, s, 0)

\* len(s.split()): the number of maximal runs of non-whitespace characters
WordCount(s) ==
    Cardinality({i \in 1..Len(s) :
                   /\ s[i] \notin SpaceSet
                   /\ (i = 1 \/ s[i-1] \in SpaceSet)})

(***************************************************************************)
(* Regular expressions.  A pattern is a sequence of items, each a          *)
(* character class repeated between min and max times (max = -1: no upper  *)
(* limit).  Ends computes the set of offsets at which a match of the items *)
(* k.. can end when started at one of the offsets P, which decides         *)
(* re.search and re.match as truth values.                                 *)
(***************************************************************************)
One(cls) == [cls |-> cls, min |-> 1, max |-> 1]
Opt(cls) == [cls |-> cls, min |-> 0, max |-> 1]
Plus(cls) == [cls |-> cls, min |-> 1, max |-> -1]
Star(cls) == [cls |-> cls, min |-> 0, max |-> -1]
Rep(cls, lo, hi) == [cls |-> cls, min |-> lo, max |-> hi]
Lit(s) == [i \in 1..Len(s) |-> One({s[i]})]

\* `.` matches every character but the newline
Dot == AllChars \ {"\n"}
DotStar == <<Star(Dot)>>
\* \w
WordSet == LetterSet \cup DigitSet \cup {"_"}

ItemStep(s, it, P) ==
    UNION { { p + n : n \in { m \in it.min..(Len(s) - p) :
                                /\ (it.max = -1 \/ m <= it.max)
                                /\ \A j \in 1..m : s[p + j] \in it.cls } }
            : p \in P }

RECURSIVE Ends(_, _, _, _)
Ends(s, pat, k, P) ==
    IF k > Len(pat) \/ P = {} THEN P
    ELSE Ends(s, pat, k + 1, ItemStep(s, pat[k], P))

\* re.search(pat, s) is not None
Search(pat, s) == Ends(s, pat, 1, 0..Len(s)) # {}

\* re.match('^' pat '$', s) is not None, for s without a trailing newline
FullMatch(pat, s) == Len(s) \in Ends(s, pat, 1, {0})

(***************************************************************************)
(* chatbot_engine.py: the intent screens of process_answer.                *)
(***************************************************************************)
Apos == Opt({"'"})

help_patterns == <<
    Lit(<<"w","h","y">>) \o DotStar \o Lit(<<"n","e","e","d">>) \o DotStar \o Lit(<<"t","h","i","s">>),
    Lit(<<"w","h","y">>) \o DotStar \o Lit(<<"a","s","k">>) \o DotStar \o Lit(<<"t","h","i","s">>),
    Lit(<<"w","h","a","t">>) \o DotStar \o Lit(<<"f","o","r">>),
    Lit(<<"h","e","l","p">>),
    Lit(<<"e","x","p","l","a","i","n">>),
    Lit(<<"d","o","n","'","t"," ","u","n","d","e","r","s","t","a","n","d">>),
    Lit(<<"n","o","t"," ","s","u","r","e">>),
    Lit(<<"w","h","a","t">>) \o DotStar \o Lit(<<"m","e","a","n">>),
    Lit(<<"w","h","a","t"," ","d","o","e","s">>) \o DotStar \o Lit(<<"m","e","a","n">>),
    Lit(<<"w","h","a","t"," ","i","s">>) \o DotStar \o Lit(<<"m","e","a","n">>),
    Lit(<<"w","h","a","t"," ","i","s"," ">>) \o <<Plus(WordSet)>>,
    Lit(<<"w","h","a","t"," ","d","o","e","s"," ">>) \o <<Plus(WordSet)>>,
    DotStar \o Lit(<<"w","h","a","t"," ","d","o","e","s"," ","t","h","i","s"," ","m","e","a","n">>),
    DotStar \o Lit(<<"w","h","a","t"," ","i","s"," ","t","h","i","s">>),
    Lit(<<"c","a","n"," ","y","o","u"," ","e","x","p","l","a","i","n">>),
    Lit(<<"c","a","n"," ","y","o","u"," ","s","h","a","r","e">>),
    Lit(<<"t","e","l","l"," ","m","e"," ","a","b","o","u","t">>),
    Lit(<<"h","o","w">>) \o DotStar \o Lit(<<"u","s","e","d">>),
    Lit(<<"w","h","a","t">>) \o DotStar \o Lit(<<"h","a","p","p","e","n">>) \o DotStar \o Lit(<<"w","i","t","h">>),
    Lit(<<"w","h","a","t">>) \o DotStar \o Lit(<<"d","o">>) \o DotStar \o Lit(<<"w","i","t","h">>) >>

avoidance_patterns == <<
    Lit(<<"d","o","n">>) \o <<Apos>> \o Lit(<<"t"," ","w","a","n","t"," ","t","o"," ","a","n","s","w","e","r">>),
    Lit(<<"d","o","t","n">>) \o <<Apos>> \o Lit(<<" ","w","a","n","t"," ","t","o"," ","a","n","s","w","e","r">>),
    Lit(<<"d","o","n","t"," ","w","a","n","t"," ","t","o"," ","a","n","s","w","e","r">>),
    Lit(<<"s","k","i","p"," ","t","h","i","s">>),
    Lit(<<"p","a","s","s">>),
    Lit(<<"n","e","x","t"," ","q","u","e","s","t","i","o","n">>),
    Lit(<<"d","o","n">>) \o <<Apos>> \o Lit(<<"t"," ","w","a","n","t"," ","t","o"," ","s","a","y">>),
    Lit(<<"p","r","e","f","e","r"," ","n","o","t"," ","t","o">>),
    Lit(<<"r","a","t","h","e","r"," ","n","o","t">>),
    Lit(<<"n","o","n","e"," ","o","f"," ","y","o","u","r"," ","b","u","s","i","n","e","s","s">>),
    Lit(<<"p","r","i","v","a","t","e">>),
    Lit(<<"c","a","n">>) \o <<Apos>> \o Lit(<<"t"," ","a","n","s","w","e","r">>) >>

confusion_patterns == <<
    Lit(<<"i"," ","d","o","n">>) \o <<Apos>> \o Lit(<<"t"," ","g","e","t"," ","i","t">>),
    Lit(<<"d","o","n">>) \o <<Apos>> \o Lit(<<"t"," ","u","n","d","e","r","s","t","a","n","d">>),
    Lit(<<"w","h","y">>) \o DotStar \o Lit(<<"q","u","e","s","t","i","o","n">>),
    Lit(<<"w","h","y">>) \o DotStar \o Lit(<<"a","s","k">>),
    Lit(<<"c","o","n","f","u","s","e","d">>),
    Lit(<<"w","h","a","t"," ","d","o","e","s"," ","t","h","i","s"," ","m","e","a","n">>),
    Lit(<<"i"," ","d","o","n">>) \o <<Apos>> \o Lit(<<"t"," ","k","n","o","w"," ","w","h","y">>),
    Lit(<<"n","o","t"," ","s","u","r","e"," ","w","h","y">>),
    Lit(<<"w","h","y"," ","d","o"," ","y","o","u"," ","n","e","e","d">>),
    Lit(<<"w","h","a","t">>) \o <<Apos>> \o Lit(<<"s"," ","t","h","e"," ","p","o","i","n","t">>) >>

AnyPattern(patterns, s) == \E i \in DOMAIN patterns : Search(patterns[i], s)

\* ChatbotEngine._is_help_request
IsHelpRequest(user_input) == AnyPattern(help_patterns, Lower(user_input))

\* ChatbotEngine._is_avoidance
IsAvoidance(user_input) == AnyPattern(avoidance_patterns, Lower(user_input))

\* ChatbotEngine._is_confusion_expression
IsConfusionExpression(user_input) == AnyPattern(confusion_patterns, Lower(user_input))

(***************************************************************************)
(* data_models.py: Question, FormTemplate, PersonalInfo, AddressInfo.      *)
(* The templates: the branching part of demo_test.py's demo template, and  *)
(* one whose "If" rule refers to a question that comes later.              *)
(***************************************************************************)
Question(id, number, question_text, field_type, field_responses, conditional_logic) ==
    [id |-> id, number |-> number, question_text |-> question_text,
     field_type |-> field_type, field_responses |-> field_responses,
     conditional_logic |-> conditional_logic, required |-> TRUE]

FormTemplate(id, questions) == [id |-> id, questions |-> questions]

S_Yes == <<"Y","e","s">>
S_No == <<"N","o">>
S_text == <<"t","e","x","t">>
S_email == <<"e","m","a","i","l">>
S_dropdown == <<"d","r","o","p","d","o","w","n">>

\* demo_test.py create_demo_template: the marital question, its follow-up and the email
DemoTemplate == FormTemplate("demo", <<
    Question("d1", 1, <<"A","r","e"," ","y","o","u"," ","m","a","r","r","i","e","d","?">>, S_dropdown,
             <<S_Yes, S_No, <<"P","r","e","f","e","r"," ","n","o","t"," ","t","o"," ","s","a","y">>>>, None),
    Question("d2", 2, <<"W","h","a","t"," ","i","s"," ","y","o","u","r"," ","s","p","o","u","s","e","'","s"," ","n","a","m","e","?">>, S_text, <<>>,
             <<"I","f"," ","Q","1"," ","="," ","'","Y","e","s","'">>),
    Question("d3", 3, <<"W","h","a","t"," ","i","s"," ","y","o","u","r"," ","e","m","a","i","l"," ","a","d","d","r","e","s","s","?">>, S_email, <<>>, None) >>)

\* an "If ... =" rule on a question that comes later; numbers with a gap,
\* the expected value written with blanks and capitals
LateTemplate == FormTemplate("late", <<
    Question("l1", 1, <<"W","h","o"," ","i","s"," ","y","o","u","r"," ","e","m","e","r","g","e","n","c","y"," ","c","o","n","t","a","c","t","?">>, S_text, <<>>,
             <<"I","f"," ","Q","3"," ","="," ","'"," ","Y","E","S"," ","'">>),
    Question("l2", 3, <<"D","o"," ","y","o","u"," ","h","a","v","e"," ","a","n"," ","e","m","e","r","g","e","n","c","y"," ","c","o","n","t","a","c","t","?">>, S_dropdown,
             <<S_Yes, S_No>>, None) >>)

Templates == {DemoTemplate, LateTemplate}

S_checkbox == <<"c","h","e","c","k","b","o","x">>

\* a marital question followed by a spouse question that carries no rule
MaritalTemplate == FormTemplate("marital", <<
    Question("m1", 1, <<"A","r","e"," ","y","o","u"," ","m","a","r","r","i","e","d","?">>, S_dropdown, <<S_Yes, S_No>>, None),
    Question("m2", 2, <<"W","h","a","t"," ","i","s"," ","y","o","u","r"," ","s","p","o","u","s","e","'","s"," ","n","a","m","e","?">>, S_text, <<>>, None) >>)

\* a "Skip if ... !=" rule and an "If ... =" rule on questions about a partner
BranchTemplate == FormTemplate("branch", <<
    Question("n1", 1, <<"A","r","e"," ","y","o","u"," ","m","a","r","r","i","e","d","?">>, S_dropdown, <<S_Yes, S_No>>, None),
    Question("n2", 2, <<"D","o"," ","y","o","u"," ","l","i","v","e"," ","w","i","t","h"," ","a"," ","p","a","r","t","n","e","r","?">>, S_dropdown, <<S_Yes, S_No>>,
             <<"S","k","i","p"," ","i","f"," ","Q","1"," ","!","="," ","'","N","o","'">>),
    Question("n3", 3, <<"W","h","a","t"," ","i","s"," ","y","o","u","r"," ","p","a","r","t","n","e","r","'","s"," ","n","a","m","e","?">>, S_text, <<>>,
             <<"I","f"," ","Q","2"," ","="," ","'","Y","e","s","'">>) >>)

\* questions whose texts carry the keywords of the standard fields
ContactTemplate == FormTemplate("contact", <<
    Question("f1", 1, <<"W","h","a","t"," ","i","s"," ","y","o","u","r"," ","f","i","r","s","t"," ","n","a","m","e","?">>, S_text, <<>>, None),
    Question("f2", 2, <<"W","h","a","t"," ","c","i","t","y"," ","a","n","d"," ","s","t","a","t","e"," ","d","o"," ","y","o","u"," ","l","i","v","e"," ","i","n","?">>, S_text, <<>>, None) >>)

\* a multi-select question
NeedsTemplate == FormTemplate("needs", <<
    Question("c1", 1, <<"W","h","a","t"," ","d","o"," ","y","o","u"," ","n","e","e","d"," ","h","e","l","p"," ","w","i","t","h","?">>, S_checkbox,
             <<<<"H","o","u","s","i","n","g">>, <<"F","o","o","d">>, <<"H","e","a","l","t","h","c","a","r","e">>>>, None) >>)

\* two questions whose rules refer to the question that follows them
FollowUpTemplate == FormTemplate("followup", <<
    Question("v1", 1, <<"W","h","o"," ","i","s"," ","y","o","u","r"," ","e","m","e","r","g","e","n","c","y"," ","c","o","n","t","a","c","t","?">>, S_text, <<>>,
             <<"I","f"," ","Q","3"," ","="," ","'","Y","e","s","'">>),
    Question("v2", 2, <<"W","h","a","t"," ","i","s"," ","t","h","e","i","r"," ","r","e","l","a","t","i","o","n","s","h","i","p"," ","t","o"," ","y","o","u","?">>, S_text, <<>>,
             <<"S","k","i","p"," ","i","f"," ","Q","3"," ","!","="," ","'","Y","e","s","'">>),
    Question("v3", 3, <<"D","o"," ","y","o","u"," ","h","a","v","e"," ","a","n"," ","e","m","e","r","g","e","n","c","y"," ","c","o","n","t","a","c","t","?">>, S_dropdown, <<S_Yes, S_No>>, None) >>)

\* a question about an alternate contact after a question on another subject
SecondaryTemplate == FormTemplate("secondary", <<
    Question("s1", 1, <<"D","o"," ","y","o","u"," ","o","w","n"," ","a"," ","c","a","r","?">>, S_dropdown, <<S_Yes, S_No>>, None),
    Question("s2", 2, <<"W","h","a","t"," ","i","s"," ","y","o","u","r"," ","a","l","t","e","r","n","a","t","e"," ","c","o","n","t","a","c","t"," ","n","a","m","e","?">>, S_text, <<>>, None) >>)

S_phone == <<"p","h","o","n","e">>

\* a question of the phone kind and a text question whose prompt mentions a phone
PhoneTemplate == FormTemplate("phone", <<
    Question("p1", 1, <<"W","h","a","t"," ","i","s"," ","y","o","u","r"," ","p","h","o","n","e"," ","n","u","m","b","e","r","?">>, S_phone, <<>>, None),
    Question("p2", 2, <<"W","h","a","t"," ","i","s"," ","t","h","e"," ","b","e","s","t"," ","p","h","o","n","e"," ","t","o"," ","r","e","a","c","h"," ","y","o","u","?">>, S_text, <<>>, None) >>)

\* the marital question of demo_test.create_demo_template, whose third choice is
\* "Prefer not to say", followed by a text question
ChoiceTemplate == FormTemplate("choice", <<
    Question("k1", 1, <<"A","r","e"," ","y","o","u"," ","m","a","r","r","i","e","d","?">>, S_dropdown,
             <<S_Yes, S_No, <<"P","r","e","f","e","r"," ","n","o","t"," ","t","o"," ","s","a","y">>>>, None),
    Question("k2", 2, <<"W","h","a","t"," ","i","s"," ","y","o","u","r"," ","n","a","m","e","?">>, S_text, <<>>, None) >>)

\* a marital question and a spouse question with a condition of
\* chatbot_engine_new's skip_conditions
SpouseTemplate == FormTemplate("spouse", <<
    Question("w1", 1, <<"A","r","e"," ","y","o","u"," ","m","a","r","r","i","e","d","?">>, S_dropdown, <<S_Yes, S_No>>, None),
    Question("w2", 2, <<"W","h","a","t"," ","i","s"," ","y","o","u","r"," ","s","p","o","u","s","e","'","s"," ","n","a","m","e","?">>, S_text, <<>>,
             <<"S","k","i","p"," ","i","f"," ","n","o","t"," ","m","a","r","r","i","e","d">>) >>)

IntakeTemplates == {MaritalTemplate, BranchTemplate, ContactTemplate}
OrderTemplates == {FollowUpTemplate, SecondaryTemplate}
AllTemplates == Templates \cup IntakeTemplates \cup OrderTemplates
                    \cup {NeedsTemplate, PhoneTemplate, ChoiceTemplate, SpouseTemplate}
TemplateIds == {t.id : t \in AllTemplates}
TemplateById(tid) == CHOOSE t \in AllTemplates : t.id = tid
AllQuestions == UNION {Range(t.questions) : t \in AllTemplates}
QuestionIds == {q.id : q \in AllQuestions}
QuestionById(qid) == CHOOSE q \in AllQuestions : q.id = qid

PersonalFields == {"person_first_name", "person_last_name", "person_date_of_birth",
                   "person_middle_name", "person_preferred_name", "person_gender",
                   "person_citizenship", "person_ethnicity", "person_marital_status",
                   "person_race", "person_phone_number", "person_email_address"}
AddressFields == {"address_type", "address_line_1", "address_line_2", "address_city",
                  "address_state", "address_country", "address_postal_code"}
\* PersonalInfo(), AddressInfo(): every attribute None
PersonalInfo == [f \in PersonalFields |-> None]
AddressInfo == [f \in AddressFields |-> None]

(***************************************************************************)
(* What the respondent types.  Inputs are typed into a session; the        *)
(* validator alone is also run on ProbeInputs.                             *)
(***************************************************************************)
U_Yes == S_Yes
U_No == S_No
U_yes_padded == <<" ","y","e","s"," ">>
U_JohnDoe == <<"J","o","h","n"," ","D","o","e">>
U_email_ok == <<"j","o","h","n","@","e","x","a","m","p","l","e",".","c","o","m">>
U_empty == <<>>
U_why == <<"W","h","y"," ","d","o"," ","y","o","u"," ","n","e","e","d"," ","t","h","i","s","?">>
U_skip == <<"s","k","i","p"," ","t","h","i","s">>

U_blank == <<" "," ">>
Inputs == {U_Yes, U_No, U_yes_padded, U_JohnDoe, U_email_ok, U_empty, U_blank, U_why,
           U_skip}

\* the third choice of the marital question, as listed and in another case and padding
U_prefer_not == <<"P","r","e","f","e","r"," ","n","o","t"," ","t","o"," ","s","a","y">>
U_prefer_not_loose == <<" "," ","p","r","e","f","e","r"," ","N","O","T"," ","t","o"," ","s","a","y"," ">>
ChoiceInputs == {U_Yes, U_No, U_yes_padded, U_prefer_not, U_prefer_not_loose, U_JohnDoe}


U_email_notld == <<"j","o","h","n","@","e","x","a","m","p","l","e">>
U_email_bad == <<"n","o","t","-","a","n","-","e","m","a","i","l">>
U_email_short_tld == <<"a","@","b",".","c">>
U_email_two_at == <<"a","@","b","@","c",".","o","r","g">>
U_rather_not == <<"I","'","d"," ","r","a","t","h","e","r"," ","n","o","t"," ","s","a","y"," ","m","u","c","h"," ","a","b","o","u","t"," ","t","h","a","t"," ","t","o","p","i","c"," ","a","t"," ","a","l","l">>
U_long_unmatched == <<"i","t"," ","i","s"," ","a"," ","v","e","r","y"," ","l","o","n","g"," ","s","t","o","r","y">>
U_three_words == <<"a","s","k"," ","m","e"," ","l","a","t","e","r">>
U_maybe == <<"m","a","y","b","e">>

YesSynonyms == {<<"y">>, <<"y","e","s">>, <<"y","e","p">>, <<"y","e","a","h">>}
NoSynonyms == {<<"n">>, <<"n","o">>, <<"n","o","p","e">>, <<"n","a","h">>}

U_housing_and_food == <<"H","o","u","s","i","n","g"," ","a","n","d"," ","F","o","o","d">>
U_transportation == <<"T","r","a","n","s","p","o","r","t","a","t","i","o","n">>
U_healthcare_upper == <<"i"," ","n","e","e","d"," ","H","E","A","L","T","H","C","A","R","E">>
U_seafood == <<"s","e","a","f","o","o","d">>
U_phone_dashes == <<"5","5","5","-","1","2","3","-","4","5","6","7">>
U_phone_plain == <<"5","5","5","1","2","3","4","5","6","7">>
U_phone_parens == <<"(","5","5","5",")"," ","1","2","3"," ","4","5","6","7">>
U_phone_short == <<"5","5","5","-","1","2","3","4">>
U_phone_six_digits == <<"(","5","5","5",")"," ","1","2","-","3"," ">>
U_phone_spaced_out == <<"5"," ","5"," ","5"," ","-"," ","1"," ","2">>
U_phone_dots == <<"5","5","5",".","1","2","3",".","4","5","6","7">>
\* answers to the questions about names and phone numbers
FieldInputs == {U_phone_dashes, U_phone_plain, U_JohnDoe, U_why}

\* every input typed into a session of some specification
SessionInputs == Inputs \cup ChoiceInputs \cup FieldInputs

PhoneInputs == {U_phone_dashes, U_phone_plain, U_phone_parens, U_phone_short,
                U_phone_six_digits, U_phone_spaced_out, U_phone_dots}

ProbeInputs == Inputs \cup YesSynonyms \cup NoSynonyms \cup
               {U_email_notld, U_email_bad, U_email_short_tld, U_email_two_at, U_blank,
                U_rather_not, U_long_unmatched, U_three_words, U_maybe,
                U_housing_and_food, U_transportation, U_healthcare_upper, U_seafood}
                   \cup PhoneInputs

(***************************************************************************)
(* chatbot_engine.py: the skip-logic evaluator.                            *)
(***************************************************************************)
DigitSeq == <<"0","1","2","3","4","5","6","7","8","9">>
DigitVal(c) == (CHOOSE i \in DOMAIN DigitSeq : DigitSeq[i] = c) - 1

\* int() of a string of digits
RECURSIVE ToInt(_)
ToInt(ds) ==
    IF Len(ds) = 0 THEN 0
    ELSE 10 * ToInt(SubSeq(ds, 1, Len(ds) - 1)) + DigitVal(ds[Len(ds)])

\* the length of the longest run of characters of cls that starts after offset p
RunLen(s, p, cls) ==
    LET stops == {n \in 0..(Len(s) - p) : n = Len(s) - p \/ s[p + n + 1] \notin cls}
    IN CHOOSE n \in stops : \A m \in stops : n <= m

NoMatch == [matched |-> FALSE, num |-> 0, value |-> <<>>]

\* the tail  \s*['"]?([^'"]+)['"]?  of both rule patterns, matched after offset f with
\* Python's greedy, backtracking order: the value group is the text after an opening
\* quote, or the unquoted text, or (when only blanks precede a quote or the end) the
\* last blank
RuleValue(s, f) ==
    LET k == RunLen(s, f, SpaceSet)
        p == f + k
        NonQuote == AllChars \ QuoteSet
    IN IF p + 2 <= Len(s) /\ s[p + 1] \in QuoteSet /\ s[p + 2] \notin QuoteSet
       THEN [matched |-> TRUE, value |-> SubSeq(s, p + 2, p + 1 + RunLen(s, p + 1, NonQuote))]
       ELSE IF p + 1 <= Len(s) /\ s[p + 1] \notin QuoteSet
       THEN [matched |-> TRUE, value |-> SubSeq(s, p + 1, p + RunLen(s, p, NonQuote))]
       ELSE IF k >= 1
       THEN [matched |-> TRUE, value |-> SubSeq(s, p, p)]
       ELSE [matched |-> FALSE, value |-> <<>>]

\* q?(\d+)\s*<op>\s*['"]?([^'"]+)['"]?  matched after offset b
RuleBodyAt(s, b, op) ==
    LET c == IF b + 1 <= Len(s) /\ s[b + 1] = "q" THEN b + 1 ELSE b
        d == RunLen(s, c, DigitSet)
        e == c + d + RunLen(s, c + d, SpaceSet)
        v == RuleValue(s, e + Len(op))
    IN IF d >= 1 /\ OccursAt(op, s, e) /\ v.matched
       THEN [matched |-> TRUE, num |-> ToInt(SubSeq(s, c + 1, c + d)),
             value |-> Lower(Strip(v.value))]
       ELSE NoMatch

\* if\s+ <body> matched at offset p
IfRuleAt(s, p, op) ==
    LET w == RunLen(s, p + 2, SpaceSet)
    IN IF OccursAt(<<"i","f">>, s, p) /\ w >= 1
       THEN RuleBodyAt(s, p + 2 + w, op)
       ELSE NoMatch

\* the leftmost match among the matches at each offset, as re.search finds it
FirstMatch(at) ==
    LET hits == {p \in DOMAIN at : at[p].matched}
    IN IF hits = {} THEN NoMatch
       ELSE at[CHOOSE p \in hits : \A r \in hits : p <= r]

\* pattern1 = r'if\s+q?(\d+)\s*=\s*[\'"]?([^\'"]+)[\'"]?' with its groups
SearchPattern1(logic) ==
    FirstMatch([p \in 0..Len(logic) |-> IfRuleAt(logic, p, <<"=">>)])

\* skip\s+ <if rule with !=> matched at offset p
SkipIfRuleAt(s, p) ==
    LET w == RunLen(s, p + 4, SpaceSet)
    IN IF OccursAt(<<"s","k","i","p">>, s, p) /\ w >= 1
       THEN IfRuleAt(s, p + 4 + w, <<"!","=">>)
       ELSE NoMatch

\* pattern2 = r'skip\s+if\s+q?(\d+)\s*!=\s*[\'"]?([^\'"]+)[\'"]?' with its groups
SearchPattern2(logic) ==
    FirstMatch([p \in 0..Len(logic) |-> SkipIfRuleAt(logic, p)])

\* `x in [..]` on a list of strings
InList(x, list) == \E i \in DOMAIN list : list[i] = x

\* q.id in self.responses
Answered(q, responses) == q.id \in DOMAIN responses

\* answer.lower().strip(), computed once for the inputs of a session
NormTable == [u \in SessionInputs |-> Strip(Lower(u))]
Norm(answer) == IF answer \in SessionInputs THEN NormTable[answer] ELSE Strip(Lower(answer))

\* self.responses[q.id].lower().strip()
NormAnswer(q, responses) == Norm(responses[q.id])

\* the keywords the skip rules look for in question texts
Keywords == {<<"r","e","f","e","r","r","a","l"," ","s","o","u","r","c","e">>, <<"c","o","u","r","t">>, <<"c","o","u","r","t"," ","c","a","s","e">>, <<"s","p","o","u","s","e">>, <<"p","a","r","t","n","e","r">>,
             <<"m","a","r","r","i","e","d">>, <<"m","a","r","i","t","a","l">>, <<"p","r","o","g","r","a","m">>, <<"e","n","r","o","l","l","e","d">>, <<"d","a","d","s">>, <<"m","o","m","s">>,
             <<"e","p","i","c">>, <<"m","e","n","d">>, <<"b","e","n","e","f","i","t">>, <<"a","m","o","u","n","t">>, <<"m","o","n","t","h","l","y">>, <<"s","e","c","o","n","d","a","r","y">>,
             <<"a","l","t","e","r","n","a","t","e">>}

\* the keywords found in each question's lower-cased text, computed once
KeywordsOf ==
    [qid \in QuestionIds |->
        {kw \in Keywords : Contains(Lower(QuestionById(qid).question_text), kw)}]

\* `"kw" in q.question_text.lower()`
TextHas(q, kw) ==
    IF kw \in Keywords THEN kw \in KeywordsOf[q.id]
    ELSE Contains(Lower(q.question_text), kw)

NoCourtAnswers == <<<<"n","o">>, <<"n">>, <<"n","o","n","e">>, <<"n","o","t"," ","a","p","p","l","i","c","a","b","l","e">>, <<"n","a">>>>
NotMarriedAnswers == <<<<"n","o">>, <<"s","i","n","g","l","e">>, <<"d","i","v","o","r","c","e","d">>, <<"w","i","d","o","w","e","d">>, <<"s","e","p","a","r","a","t","e","d">>>>
NoBenefitAnswers == <<<<"n","o">>, <<"n","o","n","e">>, <<"0">>, <<"n","o","t"," ","a","p","p","l","i","c","a","b","l","e">>, <<"n","a">>, <<"d","o"," ","n","o","t"," ","r","e","c","e","i","v","e">>>>
NoContactAnswers == <<<<"n","o">>, <<"n","o","n","e">>, <<"n","o","t"," ","n","e","e","d","e","d">>, <<"n","o"," ","t","h","a","n","k","s">>, <<"s","k","i","p">>>>
ProgramNames == <<<<"d","a","d","s">>, <<"m","o","m","s">>, <<"e","p","i","c">>, <<"m","e","n","d">>>>
SkippablePrograms == <<<<"d","a","d","s">>, <<"e","p","i","c">>, <<"m","e","n","d">>>>

\* ChatbotEngine._apply_smart_skip_rules
\* the spouse rule firing only on the answers that name a marital status, not on "no"
apply_smart_skip_rules_status_only(question, template, responses) ==
    /\ (TextHas(question, <<"s","p","o","u","s","e">>) \/ TextHas(question, <<"p","a","r","t","n","e","r">>))
    /\ \E q \in Range(template.questions) :
          /\ (TextHas(q, <<"m","a","r","r","i","e","d">>) \/ TextHas(q, <<"m","a","r","i","t","a","l">>))
          /\ Answered(q, responses)
          /\ InList(NormAnswer(q, responses), Tail(NotMarriedAnswers))

apply_smart_skip_rules(question, template, responses) ==
    LET qs == Range(template.questions)
        rule1 == /\ TextHas(question, <<"r","e","f","e","r","r","a","l"," ","s","o","u","r","c","e">>)
                 /\ TextHas(question, <<"c","o","u","r","t">>)
                 /\ \E q \in qs : /\ TextHas(q, <<"c","o","u","r","t"," ","c","a","s","e">>)
                                  /\ Answered(q, responses)
                                  /\ InList(NormAnswer(q, responses), NoCourtAnswers)
        rule2 == /\ (TextHas(question, <<"s","p","o","u","s","e">>) \/ TextHas(question, <<"p","a","r","t","n","e","r">>))
                 /\ \E q \in qs : /\ (TextHas(q, <<"m","a","r","r","i","e","d">>) \/ TextHas(q, <<"m","a","r","i","t","a","l">>))
                                  /\ Answered(q, responses)
                                  /\ InList(NormAnswer(q, responses), NotMarriedAnswers)
        rule3 == /\ TextHas(question, <<"p","r","o","g","r","a","m">>)
                 /\ \E i \in DOMAIN ProgramNames : TextHas(question, ProgramNames[i])
                 /\ \E q \in qs :
                       /\ TextHas(q, <<"p","r","o","g","r","a","m">>) /\ TextHas(q, <<"e","n","r","o","l","l","e","d">>)
                       /\ Answered(q, responses)
                       /\ \E i \in DOMAIN SkippablePrograms :
                             /\ TextHas(question, SkippablePrograms[i])
                             /\ ~Contains(Lower(responses[q.id]), SkippablePrograms[i])
        rule4 == /\ TextHas(question, <<"b","e","n","e","f","i","t">>)
                 /\ (TextHas(question, <<"a","m","o","u","n","t">>) \/ TextHas(question, <<"m","o","n","t","h","l","y">>))
                 /\ \E q \in qs : /\ TextHas(q, <<"b","e","n","e","f","i","t">>)
                                  /\ Answered(q, responses)
                                  /\ InList(NormAnswer(q, responses), NoBenefitAnswers)
        rule5 == /\ (TextHas(question, <<"s","e","c","o","n","d","a","r","y">>) \/ TextHas(question, <<"a","l","t","e","r","n","a","t","e">>))
                 /\ \E q \in qs : /\ Answered(q, responses)
                                  /\ InList(NormAnswer(q, responses), NoContactAnswers)
    IN rule1 \/ rule2 \/ rule3 \/ rule4 \/ rule5

\* `not question.conditional_logic`: None or the empty string
NoLogic(question) ==
    question.conditional_logic = None \/ Len(question.conditional_logic) = 0

\* the loop over the template that looks up the referenced question's answer:
\* the first question with that number that has an entry decides
ReferencedAnswers(num, template, responses) ==
    {i \in DOMAIN template.questions :
        /\ template.questions[i].number = num
        /\ Answered(template.questions[i], responses)}

FirstReferenced(num, template, responses) ==
    LET hits == ReferencedAnswers(num, template, responses)
    IN template.questions[CHOOSE i \in hits : \A j \in hits : i <= j]

\* logic = question.conditional_logic.lower().strip()
Logic(question) == Strip(Lower(question.conditional_logic))

\* re.search(pattern1, logic) and re.search(pattern2, logic) of each question that
\* has conditional logic, computed once
ParsedLogic ==
    [qid \in {q.id : q \in {x \in AllQuestions : ~NoLogic(x)}} |->
        [match1 |-> SearchPattern1(Logic(QuestionById(qid))),
         match2 |-> SearchPattern2(Logic(QuestionById(qid)))]]

\* a "Skip if ... !=" rule that skips while the referenced question is unanswered
should_skip_question_skip_unanswered(question, template, responses) ==
    IF NoLogic(question)
    THEN apply_smart_skip_rules(question, template, responses)
    ELSE LET match1 == ParsedLogic[question.id].match1
             match2 == ParsedLogic[question.id].match2
         IN IF match1.matched
            THEN (IF ReferencedAnswers(match1.num, template, responses) # {}
                  THEN NormAnswer(FirstReferenced(match1.num, template, responses),
                                  responses) # match1.value
                  ELSE TRUE)
            ELSE IF match2.matched
            THEN (IF ReferencedAnswers(match2.num, template, responses) # {}
                  THEN NormAnswer(FirstReferenced(match2.num, template, responses),
                                  responses) # match2.value
                  ELSE TRUE)
            ELSE apply_smart_skip_rules(question, template, responses)

\* a "Skip if ... !=" rule that skips when the answer equals the expected value
should_skip_question_skip_equal(question, template, responses) ==
    IF NoLogic(question)
    THEN apply_smart_skip_rules(question, template, responses)
    ELSE LET match1 == ParsedLogic[question.id].match1
             match2 == ParsedLogic[question.id].match2
         IN IF match1.matched
            THEN (IF ReferencedAnswers(match1.num, template, responses) # {}
                  THEN NormAnswer(FirstReferenced(match1.num, template, responses),
                                  responses) # match1.value
                  ELSE TRUE)
            ELSE IF match2.matched
            THEN (IF ReferencedAnswers(match2.num, template, responses) # {}
                  THEN NormAnswer(FirstReferenced(match2.num, template, responses),
                                  responses) = match2.value
                  ELSE FALSE)
            ELSE apply_smart_skip_rules(question, template, responses)

\* the explicit rule combined with the smart rules
should_skip_question_or_heuristic(question, template, responses) ==
    IF NoLogic(question)
    THEN apply_smart_skip_rules(question, template, responses)
    ELSE LET match1 == ParsedLogic[question.id].match1
             match2 == ParsedLogic[question.id].match2
         IN IF match1.matched
            THEN (IF ReferencedAnswers(match1.num, template, responses) # {}
                  THEN NormAnswer(FirstReferenced(match1.num, template, responses),
                                  responses) # match1.value
                  ELSE TRUE)
                 \/ apply_smart_skip_rules(question, template, responses)
            ELSE IF match2.matched
            THEN (IF ReferencedAnswers(match2.num, template, responses) # {}
                  THEN NormAnswer(FirstReferenced(match2.num, template, responses),
                                  responses) # match2.value
                  ELSE FALSE)
                 \/ apply_smart_skip_rules(question, template, responses)
            ELSE apply_smart_skip_rules(question, template, responses)

\* _should_skip_question comparing the stored answer as typed, without lower().strip()
should_skip_question_raw(question, template, responses) ==
    IF NoLogic(question)
    THEN apply_smart_skip_rules(question, template, responses)
    ELSE LET match1 == ParsedLogic[question.id].match1
             match2 == ParsedLogic[question.id].match2
         IN IF match1.matched
            THEN IF ReferencedAnswers(match1.num, template, responses) # {}
                 THEN responses[FirstReferenced(match1.num, template, responses).id]
                         # match1.value
                 ELSE TRUE
            ELSE IF match2.matched
            THEN IF ReferencedAnswers(match2.num, template, responses) # {}
                 THEN responses[FirstReferenced(match2.num, template, responses).id]
                         # match2.value
                 ELSE FALSE
            ELSE apply_smart_skip_rules(question, template, responses)

\* the body of _should_skip_question once the two patterns were searched: match1 is
\* the result of pattern1 ("If Q<n> = '<v>'"), match2 that of pattern2
\* ("Skip if Q<n> != '<v>'"); without a match the smart rules decide
\* a rule evaluation that shows an "If ... =" question while its referenced question
\* is unanswered
skip_by_logic_shown_by_default(parsed, question, template, responses) ==
    LET match1 == parsed.match1
        match2 == parsed.match2
    IN IF match1.matched
       THEN IF ReferencedAnswers(match1.num, template, responses) # {}
            THEN NormAnswer(FirstReferenced(match1.num, template, responses),
                            responses) # match1.value
            ELSE FALSE
       ELSE IF match2.matched
       THEN IF ReferencedAnswers(match2.num, template, responses) # {}
            THEN NormAnswer(FirstReferenced(match2.num, template, responses),
                            responses) # match2.value
            ELSE FALSE
       ELSE apply_smart_skip_rules(question, template, responses)

skip_by_logic(parsed, question, template, responses) ==
    LET match1 == parsed.match1
        match2 == parsed.match2
    IN IF match1.matched
       THEN IF ReferencedAnswers(match1.num, template, responses) # {}
            THEN NormAnswer(FirstReferenced(match1.num, template, responses),
                            responses) # match1.value
            ELSE TRUE
       ELSE IF match2.matched
       THEN IF ReferencedAnswers(match2.num, template, responses) # {}
            THEN NormAnswer(FirstReferenced(match2.num, template, responses),
                            responses) # match2.value
            ELSE FALSE
       ELSE apply_smart_skip_rules(question, template, responses)

\* ChatbotEngine._should_skip_question
should_skip_question(question, template, responses) ==
    IF NoLogic(question)
    THEN apply_smart_skip_rules(question, template, responses)
    ELSE skip_by_logic(ParsedLogic[question.id], question, template, responses)

(***************************************************************************)
(* chatbot_engine.py: the answer validator.  A verdict is                  *)
(* [valid, suggestion], the suggestion named by the rule that produced it. *)
(***************************************************************************)
Accept == [valid |-> TRUE, suggestion |-> "None"]
Reject(suggestion) == [valid |-> FALSE, suggestion |-> suggestion]

\* email_pattern = r'^[a-zA-Z0-9._%+-]+@[a-zA-Z0-9.-]+\.[a-zA-Z]{2,}$'
email_pattern ==
    <<Plus(LetterSet \cup DigitSet \cup {".", "_", "%", "+", "-"}),
      One({"@"}),
      Plus(LetterSet \cup DigitSet \cup {".", "-"}),
      One({"."}),
      Rep(LetterSet, 2, -1)>>

\* phone_pattern = r'[\d\s\-\(\)]{10,}'
phone_pattern == <<Rep(DigitSet \cup SpaceSet \cup {"-", "(", ")"}, 10, -1)>>

\* date_patterns
date_patterns == <<
    <<Rep(DigitSet, 1, 2), One({"/", "-"}), Rep(DigitSet, 1, 2), One({"/", "-"}),
      Rep(DigitSet, 4, 4)>>,
    <<Rep(DigitSet, 4, 4), One({"/", "-"}), Rep(DigitSet, 1, 2), One({"/", "-"}),
      Rep(DigitSet, 1, 2)>>,
    <<Plus(LetterSet), One({" "}), Rep(DigitSet, 1, 2), Opt({","}), One({" "}),
      Rep(DigitSet, 4, 4)>> >>

\* r'\d+'
number_pattern == <<Plus(DigitSet)>>

categorical_types == <<<<"d","r","o","p","d","o","w","n">>, <<"d","r","o","p"," ","d","o","w","n","-","s","i","n","g","l","e"," ","s","e","l","e","c","t">>, <<"r","a","d","i","o">>,
                       <<"s","i","n","g","l","e"," ","s","e","l","e","c","t">>>>
multi_types == <<<<"c","h","e","c","k","b","o","x">>, <<"m","u","l","t","i"," ","s","e","l","e","c","t">>>>
descriptive_types == <<<<"t","e","x","t">>, <<"f","r","e","e"," ","t","e","x","t"," ","b","o","x">>, <<"t","e","x","t","a","r","e","a">>>>
YesWords == <<<<"y">>, <<"y","e","s">>, <<"y","e","p">>, <<"y","e","a","h">>>>
NoWords == <<<<"n">>, <<"n","o">>, <<"n","o","p","e">>, <<"n","a","h">>>>
YesNoPair == <<<<"y","e","s">>, <<"n","o">>>>

\* What the language service answers to the open-ended judgment call: it fails
\* (exception, timeout), or it returns a text that is read line by line.
LSFailure == << <<"LanguageServiceUnavailable">> >>
R_valid == <<<<"V","A","L","I","D",":"," ","t","r","u","e">>, <<"T","Y","P","E",":"," ","a","n","s","w","e","r">>>>
R_is_question == <<<<"V","A","L","I","D",":"," ","f","a","l","s","e">>, <<"T","Y","P","E",":"," ","q","u","e","s","t","i","o","n">>, <<"R","E","A","S","O","N",":"," ","w","e"," ","n","e","e","d"," ","i","t">>>>
R_off_topic == <<<<"V","A","L","I","D",":"," ","f","a","l","s","e">>, <<"T","Y","P","E",":"," ","o","f","f","-","t","o","p","i","c">>, <<"R","E","A","S","O","N",":"," ","u","n","r","e","l","a","t","e","d">>, <<"E","X","A","M","P","L","E",":"," ","J","a","n","e">>>>
R_unparsable == <<<<"S","u","r","e",","," ","t","h","a","t"," ","l","o","o","k","s"," ","f","i","n","e",".">>>>
R_type_twice == <<<<"V","A","L","I","D",":"," ","f","a","l","s","e">>, <<"T","Y","P","E",":"," ","T","Y","P","E",":","q","u","e","s","t","i","o","n">>>>
R_valid_padded == <<<<" "," ">>, <<" ","V","A","L","I","D",":"," ","t","r","u","e">>, <<"T","Y","P","E",":"," ","a","n","s","w","e","r"," ">>>>
JudgeReplies == {LSFailure, R_valid, R_is_question, R_off_topic, R_unparsable, R_type_twice,
                 R_valid_padded}

\* line.replace(old, ''): every occurrence of old, found from the left, is removed
RECURSIVE Removed(_, _)
Removed(line, old) ==
    IF Len(line) < Len(old) THEN line
    ELSE IF StartsWith(line, old) THEN Removed(SubSeq(line, Len(old) + 1, Len(line)), old)
    ELSE <<line[1]>> \o Removed(Tail(line), old)

\* str.lstrip() and str.rstrip()
LStrip(s) ==
    LET keep == {i \in 1..Len(s) : s[i] \notin SpaceSet}
    IN IF keep = {} THEN <<>>
       ELSE SubSeq(s, CHOOSE i \in keep : \A j \in keep : i <= j, Len(s))

RStrip(s) ==
    LET keep == {i \in 1..Len(s) : s[i] \notin SpaceSet}
    IN IF keep = {} THEN <<>>
       ELSE SubSeq(s, 1, CHOOSE i \in keep : \A j \in keep : j <= i)

\* content.strip().split('\n') on a reply given by its lines: the blank lines at both
\* ends go, the first line left loses its leading and the last its trailing
\* whitespace; a reply of whitespace alone is one empty line
StrippedLines(reply) ==
    LET keep == {i \in DOMAIN reply : Strip(reply[i]) # <<>>}
    IN IF keep = {} THEN << <<>> >>
       ELSE LET lo == CHOOSE i \in keep : \A j \in keep : i <= j
                hi == CHOOSE i \in keep : \A j \in keep : j <= i
            IN [i \in 1..(hi - lo + 1) |->
                   IF lo = hi THEN Strip(reply[lo])
                   ELSE IF i = 1 THEN LStrip(reply[lo])
                   ELSE IF i = hi - lo + 1 THEN RStrip(reply[hi])
                   ELSE reply[lo + i - 1]]

\* the last line with the given prefix, or <<>> when there is none
LastLine(lines, prefix) ==
    LET hits == {i \in DOMAIN lines : StartsWith(lines[i], prefix)}
    IN IF hits = {} THEN <<>>
       ELSE lines[CHOOSE i \in hits : \A j \in hits : j <= i]

\* a judgment that rejects the answer when the call raises
validate_descriptive_answer_fail_closed(reply) ==
    IF reply = LSFailure THEN Reject("off_topic")
    ELSE IF Contains(Lower(LastLine(StrippedLines(reply), <<"V","A","L","I","D",":">>)),
                     <<"t","r","u","e">>) THEN Accept
    ELSE Reject("off_topic")

\* ChatbotEngine._validate_descriptive_answer
validate_descriptive_answer(reply) ==
    IF reply = LSFailure THEN Accept
    ELSE LET valid_line == LastLine(StrippedLines(reply), <<"V","A","L","I","D",":">>)
             type_line == LastLine(StrippedLines(reply), <<"T","Y","P","E",":">>)
             is_valid == Contains(Lower(valid_line), <<"t","r","u","e">>)
             response_type ==
                 IF type_line = <<>> THEN <<>>
                 ELSE Lower(Strip(Removed(type_line, <<"T","Y","P","E",":">>)))
         IN IF is_valid THEN Accept
            ELSE IF response_type = <<"q","u","e","s","t","i","o","n">> THEN Reject("is_question")
            ELSE Reject("off_topic")

\* the single-choice branch of _validate_answer (answer already stripped)
validate_single_choice(answer, question) ==
    LET valid_options == [i \in DOMAIN question.field_responses |->
                             Strip(Lower(question.field_responses[i]))]
        answer_lower == Strip(Lower(answer))
        yes_no_question ==
            /\ Len(question.field_responses) = 2
            /\ \A i \in DOMAIN question.field_responses :
                  InList(Lower(question.field_responses[i]), YesNoPair)
    IN IF InList(answer_lower, valid_options) THEN Accept
       ELSE IF \E i \in DOMAIN valid_options :
                  \/ Contains(valid_options[i], answer_lower)
                  \/ Contains(answer_lower, valid_options[i])
       THEN Accept
       ELSE IF /\ InList(answer_lower, YesWords)
               /\ \E i \in DOMAIN valid_options : Contains(Lower(valid_options[i]), <<"y","e","s">>)
       THEN Accept
       ELSE IF /\ InList(answer_lower, NoWords)
               /\ \E i \in DOMAIN valid_options : Contains(Lower(valid_options[i]), <<"n","o">>)
       THEN Accept
       ELSE IF yes_no_question /\ WordCount(answer) > 3
       THEN Reject("simple_yes_or_no")
       ELSE Reject("choose_one_of_these_options")

\* a multi-choice branch that accepts only an answer equal to one choice
validate_multi_choice_exact(answer, question) ==
    IF InList(Strip(Lower(answer)),
              [i \in DOMAIN question.field_responses |->
                  Strip(Lower(question.field_responses[i]))])
    THEN Accept
    ELSE Reject("select_from_these_options")

\* the multi-choice branch of _validate_answer
validate_multi_choice(answer, question) ==
    IF \E i \in DOMAIN question.field_responses :
          Contains(Lower(answer), Lower(question.field_responses[i]))
    THEN Accept
    ELSE Reject("select_from_these_options")

\* should_validate_with_gpt
should_validate_with_gpt(answer, question) ==
    LET field_type == Lower(question.field_type)
        opts == question.field_responses
    IN \/ InList(field_type, descriptive_types)
       \/ Len(opts) = 0
       \/ /\ Len(opts) > 0
          /\ ~\E i \in DOMAIN opts : Contains(Lower(opts[i]), Strip(Lower(answer)))
          /\ ~\E i \in DOMAIN opts : Contains(Strip(Lower(answer)), Lower(opts[i]))

\* a validator without the test for an empty answer
validate_answer_unguarded(raw_answer, question, reply) ==
    LET answer == Strip(raw_answer)
        field_type == Lower(question.field_type)
        text_lower == Lower(question.question_text)
        fall_through ==
            IF should_validate_with_gpt(answer, question)
            THEN validate_descriptive_answer(reply)
            ELSE Accept
    IN IF Contains(field_type, <<"e","m","a","i","l">>)
       THEN IF ~FullMatch(email_pattern, answer) THEN Reject("valid_email_address")
            ELSE fall_through
       ELSE IF Contains(field_type, <<"p","h","o","n","e">>) \/ Contains(text_lower, <<"p","h","o","n","e">>)
       THEN IF ~Search(phone_pattern, answer) THEN Reject("valid_phone_number")
            ELSE fall_through
       ELSE IF Contains(field_type, <<"d","a","t","e">>) \/ Contains(text_lower, <<"b","i","r","t","h">>)
       THEN IF ~AnyPattern(date_patterns, answer) THEN Reject("valid_date")
            ELSE fall_through
       ELSE IF Contains(field_type, <<"n","u","m","b","e","r">>) \/ Contains(question.question_text, <<"$">>)
       THEN IF ~Search(number_pattern, answer) THEN Reject("a_number")
            ELSE fall_through
       ELSE IF Len(question.field_responses) > 0
       THEN IF InList(field_type, categorical_types)
            THEN validate_single_choice(answer, question)
            ELSE IF InList(field_type, multi_types)
            THEN validate_multi_choice(answer, question)
            ELSE fall_through
       ELSE fall_through

\* ChatbotEngine._validate_answer; reply is the language service's answer, used
\* only when the validator calls it
validate_answer(raw_answer, question, reply) ==
    LET answer == Strip(raw_answer)
        field_type == Lower(question.field_type)
        text_lower == Lower(question.question_text)
        fall_through ==
            IF should_validate_with_gpt(answer, question)
            THEN validate_descriptive_answer(reply)
            ELSE Accept
    IN IF Len(answer) = 0 THEN Reject("provide_an_answer")
       ELSE IF Contains(field_type, <<"e","m","a","i","l">>)
       THEN IF ~FullMatch(email_pattern, answer) THEN Reject("valid_email_address")
            ELSE fall_through
       ELSE IF Contains(field_type, <<"p","h","o","n","e">>) \/ Contains(text_lower, <<"p","h","o","n","e">>)
       THEN IF ~Search(phone_pattern, answer) THEN Reject("valid_phone_number")
            ELSE fall_through
       ELSE IF Contains(field_type, <<"d","a","t","e">>) \/ Contains(text_lower, <<"b","i","r","t","h">>)
       THEN IF ~AnyPattern(date_patterns, answer) THEN Reject("valid_date")
            ELSE fall_through
       ELSE IF Contains(field_type, <<"n","u","m","b","e","r">>) \/ Contains(question.question_text, <<"$">>)
       THEN IF ~Search(number_pattern, answer) THEN Reject("a_number")
            ELSE fall_through
       ELSE IF Len(question.field_responses) > 0
       THEN IF InList(field_type, categorical_types)
            THEN validate_single_choice(answer, question)
            ELSE IF InList(field_type, multi_types)
            THEN validate_multi_choice(answer, question)
            ELSE fall_through
       ELSE fall_through

\* whether _validate_answer reaches the language service for this answer: its verdict
\* follows the service's judgment
ConsultsService(raw_answer, question) ==
    validate_answer(raw_answer, question, R_valid)
        # validate_answer(raw_answer, question, R_off_topic)

(***************************************************************************)
(* chatbot_engine.py: the standard field extractor.                        *)
(***************************************************************************)
\* the attribute the first matching branch of the if/elif chain assigns
standard_field(question) ==
    LET t == Lower(question.question_text)
    IN IF Contains(t, <<"f","i","r","s","t"," ","n","a","m","e">>) THEN "person_first_name"
       ELSE IF Contains(t, <<"l","a","s","t"," ","n","a","m","e">>) THEN "person_last_name"
       ELSE IF Contains(t, <<"e","m","a","i","l">>) THEN "person_email_address"
       ELSE IF Contains(t, <<"p","h","o","n","e">>) THEN "person_phone_number"
       ELSE IF Contains(t, <<"b","i","r","t","h">>) \/ Contains(t, <<"a","g","e">>) THEN "person_date_of_birth"
       ELSE IF Contains(t, <<"g","e","n","d","e","r">>) THEN "person_gender"
       ELSE IF Contains(t, <<"r","a","c","e">>) THEN "person_race"
       ELSE IF Contains(t, <<"e","t","h","n","i","c","i","t","y">>) THEN "person_ethnicity"
       ELSE IF Contains(t, <<"m","a","r","i","t","a","l">>) THEN "person_marital_status"
       ELSE IF Contains(t, <<"a","d","d","r","e","s","s">>) /\ Contains(t, <<"l","i","n","e"," ","1">>) THEN "address_line_1"
       ELSE IF Contains(t, <<"c","i","t","y">>) THEN "address_city"
       ELSE IF Contains(t, <<"s","t","a","t","e">>) THEN "address_state"
       ELSE IF Contains(t, <<"z","i","p">>) \/ Contains(t, <<"p","o","s","t","a","l">>) THEN "address_postal_code"
       ELSE "None"

\* the attribute of each question, computed once
FieldTable == [qid \in QuestionIds |-> standard_field(QuestionById(qid))]

\* the keyword and the attribute of each branch of the chain that tests one keyword
field_keywords ==
    {<<<<"f","i","r","s","t"," ","n","a","m","e">>, "person_first_name">>, <<<<"l","a","s","t"," ","n","a","m","e">>, "person_last_name">>,
     <<<<"e","m","a","i","l">>, "person_email_address">>, <<<<"p","h","o","n","e">>, "person_phone_number">>,
     <<<<"b","i","r","t","h">>, "person_date_of_birth">>, <<<<"a","g","e">>, "person_date_of_birth">>,
     <<<<"g","e","n","d","e","r">>, "person_gender">>, <<<<"r","a","c","e">>, "person_race">>,
     <<<<"e","t","h","n","i","c","i","t","y">>, "person_ethnicity">>, <<<<"m","a","r","i","t","a","l">>, "person_marital_status">>,
     <<<<"c","i","t","y">>, "address_city">>, <<<<"s","t","a","t","e">>, "address_state">>,
     <<<<"z","i","p">>, "address_postal_code">>, <<<<"p","o","s","t","a","l">>, "address_postal_code">>}

\* a variant of _update_standard_fields whose branches are independent ifs: every
\* attribute whose keyword occurs in the prompt is assigned
update_standard_fields_each_match(question, answer, info) ==
    LET t == Lower(question.question_text)
        hit == {p[2] : p \in {x \in field_keywords : Contains(t, x[1])}}
    IN [f \in DOMAIN info |-> IF f \in hit THEN answer ELSE info[f]]

\* ChatbotEngine._update_standard_fields, on one of the two accumulators
\* an update that leaves an attribute alone once it is set
update_standard_fields_keeping_first(question, answer, info) ==
    IF FieldTable[question.id] \in DOMAIN info /\ info[FieldTable[question.id]] = None
    THEN [info EXCEPT ![FieldTable[question.id]] = answer]
    ELSE info

update_standard_fields(question, answer, info) ==
    IF FieldTable[question.id] \in DOMAIN info
    THEN [info EXCEPT ![FieldTable[question.id]] = answer]
    ELSE info

(***************************************************************************)
(* chatbot_engine_new.py: the skip test and the field extractor of the     *)
(* language-service-driven engine.                                         *)
(***************************************************************************)
\* ChatbotEngine._get_question_text
get_question_text(qid, template) ==
    LET hits == {i \in DOMAIN template.questions : template.questions[i].id = qid}
    IN IF hits = {} THEN <<>>
       ELSE template.questions[CHOOSE i \in hits : \A j \in hits : i <= j].question_text

\* the skip_conditions table: the phrase looked for in the conditional logic, and the
\* keyword of the answered question whose answer must contain "no"
skip_conditions == <<
    [condition |-> <<"n","o","t"," ","m","a","r","r","i","e","d">>, keyword |-> <<"m","a","r","r","i","e","d">>],
    [condition |-> <<"n","o"," ","c","o","u","r","t"," ","c","a","s","e">>, keyword |-> <<"c","o","u","r","t">>],
    [condition |-> <<"n","o"," ","s","u","b","s","t","a","n","c","e">>, keyword |-> <<"s","u","b","s","t","a","n","c","e">>],
    [condition |-> <<"n","o"," ","b","e","n","e","f","i","t","s">>, keyword |-> <<"b","e","n","e","f","i","t">>] >>

\* the conditions found in each question's lower-cased conditional logic, computed once
ConditionsOf ==
    [qid \in {q.id : q \in {x \in AllQuestions : ~NoLogic(x)}} |->
        {i \in DOMAIN skip_conditions :
            Contains(Lower(QuestionById(qid).conditional_logic), skip_conditions[i].condition)}]

\* chatbot_engine_new.ChatbotEngine._should_skip_question
should_skip_question_new(question, template, resp) ==
    IF NoLogic(question) \/ DOMAIN resp = {} THEN FALSE
    ELSE \E i \in ConditionsOf[question.id] :
            /\ \E qid \in DOMAIN resp :
                  /\ Contains(Lower(get_question_text(qid, template)),
                              skip_conditions[i].keyword)
                  /\ Contains(Lower(resp[qid]), <<"n","o">>)

\* the attribute chatbot_engine_new's _update_standard_fields assigns: the chain of
\* chatbot_engine.py without its ethnicity and marital branches
standard_field_new(question) ==
    IF standard_field(question) \in {"person_ethnicity", "person_marital_status"}
    THEN LET t == Lower(question.question_text)
         IN IF Contains(t, <<"a","d","d","r","e","s","s">>) /\ Contains(t, <<"l","i","n","e"," ","1">>) THEN "address_line_1"
            ELSE IF Contains(t, <<"c","i","t","y">>) THEN "address_city"
            ELSE IF Contains(t, <<"s","t","a","t","e">>) THEN "address_state"
            ELSE IF Contains(t, <<"z","i","p">>) \/ Contains(t, <<"p","o","s","t","a","l">>) THEN "address_postal_code"
            ELSE "None"
    ELSE standard_field(question)

FieldTableNew == [qid \in QuestionIds |-> standard_field_new(QuestionById(qid))]

\* chatbot_engine_new.ChatbotEngine._update_standard_fields, on one accumulator
update_standard_fields_new(question, answer, info) ==
    IF FieldTableNew[question.id] \in DOMAIN info
    THEN [info EXCEPT ![FieldTableNew[question.id]] = answer]
    ELSE info

\* What the language service answers to the analysis call of process_answer: the call
\* fails, or the text is not JSON, or it is a JSON object. Of the object the code reads
\* is_valid_answer and should_record (an absent key reads as false) and suggestion
\* ("None": the key is absent); action is the service's classification, which the
\* prompt asks for and the code does not read
AnalysisReplies ==
    {[kind |-> k, action |-> "None", is_valid_answer |-> FALSE, should_record |-> FALSE,
      suggestion |-> "None"] : k \in {"error", "bad_json"}}
    \cup [kind : {"object"}, action : {"avoid", "help", "answer"},
          is_valid_answer : BOOLEAN, should_record : BOOLEAN,
          suggestion : {"None", "suggestion"}]

(***************************************************************************)
(* data_models.DataManager: the template store.  self.templates is a dict  *)
(* from keys to FormTemplate objects; an object is named by its position   *)
(* in objects, which is also its id, so that one object under two keys is  *)
(* one entry that both keys name.  objects keeps every template ever       *)
(* handed to save_template, also when no key names it any more.            *)
(***************************************************************************)
MaxObjects == 5
NoId == 0

O_demo == <<"D","e","m","o"," ","O","r","g","a","n","i","z","a","t","i","o","n">>
O_broomfield == <<"B","r","o","o","m","f","i","e","l","d"," ","D","e","p","a","r","t","m","e","n","t"," ","o","f"," ","H","e","a","l","t","h">>
O_gateway_ymca == <<"G","a","t","e","w","a","y"," ","Y","M","C","A"," ","C","o","m","m","u","n","i","t","y"," ","H","e","a","l","t","h">>
Organizations == {O_demo, O_broomfield, O_gateway_ymca}

\* DataManager() where no sample file exists
NoTemplates == [templates |-> <<>>, objects |-> <<>>]

\* DataManager() after load_templates_from_excel found the Broomfield file: the
\* template is stored under the key of excel_files, its organization is the name
\* of org_names
LoadedTemplates ==
    [templates |-> <<[key |-> <<"b","r","o","o","m","f","i","e","l","d">>, ref |-> 1]>>,
     objects |-> <<[id |-> 1, organization |-> O_broomfield, version |-> 1,
                    base_template_id |-> NoId, is_active |-> TRUE]>>]

\* FormTemplate(id=str(uuid.uuid4()), ...): the fields of a template that
\* save_template and set_active_template read
NewFormTemplate(id, organization, version, base_template_id) ==
    [id |-> id, organization |-> organization, version |-> version,
     base_template_id |-> base_template_id, is_active |-> TRUE]

\* template.organization.lower().replace(" ", "_")
org_key(organization) ==
    [i \in DOMAIN organization |->
        IF organization[i] = " " THEN "_" ELSE Lower(organization)[i]]

\* str(version) for the versions of the store
RECURSIVE Decimal(_)
Decimal(n) == IF n < 10 THEN <<DigitSeq[n + 1]>>
              ELSE Decimal(n \div 10) \o <<DigitSeq[(n % 10) + 1]>>

\* f"{org_key}_v{template.version}"
versioned_key(key, version) == key \o <<"_", "v">> \o Decimal(version)

\* key in d
HasKey(d, key) == \E i \in DOMAIN d : d[i].key = key

\* d[key]
ValueOf(d, key) == d[CHOOSE i \in DOMAIN d : d[i].key = key].ref

\* d[key] = ref: an existing key keeps its place, a new key goes last
SetKey(d, key, ref) ==
    IF HasKey(d, key)
    THEN [i \in DOMAIN d |-> IF d[i].key = key THEN [key |-> key, ref |-> ref] ELSE d[i]]
    ELSE Append(d, [key |-> key, ref |-> ref])

MaxOf(S) == CHOOSE x \in S : \A y \in S : y <= x

\* the max_version loop of save_template, over the stored templates of the same
\* organization whose base or id is the new template's base
max_version(self, objects, template) ==
    MaxOf({1} \cup
          {objects[self.templates[i].ref].version : i \in
              {j \in DOMAIN self.templates :
                  /\ objects[self.templates[j].ref].organization = template.organization
                  /\ \/ objects[self.templates[j].ref].base_template_id
                           = template.base_template_id
                     \/ objects[self.templates[j].ref].id = template.base_template_id}})

\* the store after the new version is filed under the versioned and the main key
FileVersion(self, objects, template, key) ==
    [templates |-> SetKey(SetKey(self.templates,
                                 versioned_key(key, template.version), template.id),
                          key, template.id),
     objects |-> Append(objects, template)]

\* DataManager.save_template: the store after the call; template is a new object
\* whose id is the next position of objects
save_template(self, template) ==
    IF HasKey(self.templates, org_key(template.organization))
       /\ template.base_template_id # NoId
    THEN FileVersion(self,
             [self.objects EXCEPT
                 ![ValueOf(self.templates, org_key(template.organization))].is_active
                     = FALSE],
             [template EXCEPT !.version =
                 max_version(self, self.objects, template) + 1],
             org_key(template.organization))
    ELSE [templates |-> SetKey(self.templates, org_key(template.organization),
                               template.id),
          objects |-> Append(self.objects,
                             [template EXCEPT !.version = 1, !.is_active = TRUE])]

\* the objects the keys of the store name: self.templates.values(), as a set
Stored(self) == {self.templates[i].ref : i \in DOMAIN self.templates}

\* the values of the store of one organization, in the order of the keys
OfOrganization(self, organization) ==
    SelectSeq([i \in DOMAIN self.templates |-> self.templates[i].ref],
              LAMBDA ref : self.objects[ref].organization = organization)

\* sorted(versions, key=lambda x: x.version, reverse=True): a stable sort, the
\* highest version first
RECURSIVE SortedByVersion(_, _)
SortedByVersion(objects, refs) ==
    IF refs = <<>> THEN <<>>
    ELSE LET top == MaxOf({objects[refs[i]].version : i \in DOMAIN refs})
             first == CHOOSE i \in DOMAIN refs :
                          /\ objects[refs[i]].version = top
                          /\ \A j \in 1..(i - 1) : objects[refs[j]].version # top
         IN <<refs[first]>> \o
            SortedByVersion(objects, SubSeq(refs, 1, first - 1)
                                        \o SubSeq(refs, first + 1, Len(refs)))

\* DataManager.get_template_versions: the list it returns, one entry per key
get_template_versions(self, organization) ==
    SortedByVersion(self.objects, OfOrganization(self, organization))

\* the return value of set_active_template: whether a stored template has the id
found_template(self, template_id) == template_id \in Stored(self)

\* DataManager.set_active_template: the store after the call
set_active_template(self, template_id) ==
    IF ~found_template(self, template_id) THEN self
    ELSE [templates |-> SetKey(self.templates,
                               org_key(self.objects[template_id].organization),
                               template_id),
          objects |-> [ref \in DOMAIN self.objects |->
                          IF ref = template_id
                          THEN [self.objects[ref] EXCEPT !.is_active = TRUE]
                          ELSE IF ref \in Stored(self)
                                  /\ self.objects[ref].organization
                                        = self.objects[template_id].organization
                          THEN [self.objects[ref] EXCEPT !.is_active = FALSE]
                          ELSE self.objects[ref]]]

(***************************************************************************)
(* The session: one ChatbotEngine instance.                                *)
(***************************************************************************)
VARIABLES
    engine,            \* the class instantiated: "chatbot_engine" or "chatbot_engine_new"
    current_template,  \* self.current_template: a template id, or Null
    current_question,  \* self.current_question: a question id, or Null
    responses,         \* self.responses: question id -> the raw answer
    personal_info,     \* self.personal_info
    address_info,      \* self.address_info
    ret,               \* the last call and what it returned
    service,           \* the outcome of each language-service call the last call made
    probe,             \* one call of the validator alone: its arguments and its verdict
    issued,            \* the AssistanceRequest sharing the session's objects, as read now
    other,             \* the attributes of a second ChatbotEngine instance
    session_state,     \* st.session_state: the login and the client interface's keys
    data_manager,      \* the DataManager: self.templates and the FormTemplate objects
    uuids              \* how many form ids uuid.uuid4() has been asked for

vars == <<engine, current_template, current_question, responses,
          personal_info, address_info, ret, service, probe, issued, other, session_state, data_manager, uuids>>

session == <<current_template, current_question, responses, personal_info, address_info>>

NoResponses == [q \in {} |-> <<>>]

\* self.responses[qid] = answer
Store(resp, qid, answer) ==
    [q \in DOMAIN resp \cup {qid} |-> IF q = qid THEN answer ELSE resp[q]]

Return(op, result, valid, suggestion, question, request) ==
    [op |-> op, result |-> result, valid |-> valid, suggestion |-> suggestion,
     question |-> question, request |-> request]

NoProbe == [question |-> Null, answer |-> <<>>, reply |-> LSFailure,
            verdict |-> Reject("not_run")]

\* the intent screens and the validator on the inputs of a session, computed once
IntentTable ==
    [u \in SessionInputs |-> [help |-> IsHelpRequest(u),
                       confusion |-> IsConfusionExpression(u),
                       avoidance |-> IsAvoidance(u)]]

VerdictTable ==
    [qid \in QuestionIds |-> [u \in SessionInputs |-> [reply \in JudgeReplies |->
        validate_answer(u, QuestionById(qid), reply)]]]

ConsultsTable ==
    [qid \in QuestionIds |-> [u \in SessionInputs |-> ConsultsService(u, QuestionById(qid))]]

NoCalls == <<>>
Outcome(reply) == IF reply = LSFailure THEN "fails" ELSE "ok"

\* the scan without the skip test
Presentable_unskipped(template, resp) ==
    {i \in DOMAIN template.questions : template.questions[i].id \notin DOMAIN resp}

\* a scan that never returns to a position before an answered question
Presentable_ahead(template, resp) ==
    {i \in DOMAIN template.questions :
        /\ template.questions[i].id \notin DOMAIN resp
        /\ ~should_skip_question(template.questions[i], template, resp)
        /\ \A j \in DOMAIN template.questions :
              template.questions[j].id \in DOMAIN resp => j < i}

\* the scan of get_next_question: the questions of the template, in list order,
\* that have no entry and are not skipped
Presentable(template, resp) ==
    {i \in DOMAIN template.questions :
        /\ template.questions[i].id \notin DOMAIN resp
        /\ ~should_skip_question(template.questions[i], template, resp)}

\* a scan that resumes after the current question instead of starting over
next_question_resuming(template, resp) ==
    LET at == {i \in DOMAIN template.questions :
                  template.questions[i].id = current_question}
        open == {i \in DOMAIN template.questions :
                    /\ template.questions[i].id \notin DOMAIN resp
                    /\ \A j \in at : j < i}
    IN IF open = {} THEN Null
       ELSE template.questions[CHOOSE i \in open : \A j \in open : i <= j].id

\* the first question, in list order, among the positions left open by the scan, or
\* None when the scan finds nothing
FirstOf(open, template) ==
    IF open = {} THEN Null
    ELSE template.questions[CHOOSE i \in open : \A j \in open : i <= j].id

\* the question get_next_question selects, or Null
next_question(template, resp) == FirstOf(Presentable(template, resp), template)

\* the same scan in chatbot_engine_new.py
next_question_new(template, resp) ==
    FirstOf({i \in DOMAIN template.questions :
                /\ template.questions[i].id \notin DOMAIN resp
                /\ ~should_skip_question_new(template.questions[i], template, resp)},
            template)

\* An AssistanceRequest is built from self.personal_info, self.address_info and
\* self.responses themselves, not from copies: the record refers to the session's own
\* objects until start_conversation gives the session new ones. The model follows a
\* record while it refers to them; NoRequest: no such record
NoRequest == <<>>

\* the record create_assistance_request returns, referring to the session's objects
Sharing(request) == <<request>>

\* start_conversation replaces the session's objects: a record built before keeps the
\* old ones, which nothing writes any more
Detached == NoRequest

\* the record as read after a call that wrote into the session's objects
ReadThrough(resp, pinfo, ainfo) ==
    IF issued # NoRequest
    THEN <<[form_id |-> issued[1].form_id,
            personal_info |-> pinfo,
            address_info |-> ainfo,
            custom_responses |-> resp]>>
    ELSE issued

\* the attributes __init__ gives an instance, and the record that refers to them
NewInstance ==
    [current_template |-> Null,
     current_question |-> Null,
     responses |-> NoResponses,
     personal_info |-> PersonalInfo,
     address_info |-> AddressInfo,
     issued |-> NoRequest]

\* st.session_state of a browser session before the first login: the keys that the
\* pages read.  current_user and selected_template are written and deleted with
\* them, and no page reads either
NewSession ==
    [authenticated |-> FALSE, user_info |-> Null, interface_type |-> Null,
     conversation_started |-> FALSE, messages |-> <<>>]

\* __init__ of chatbot_engine.ChatbotEngine
Init ==
    /\ engine = "chatbot_engine"
    /\ current_template = Null
    /\ current_question = Null
    /\ responses = NoResponses
    /\ personal_info = PersonalInfo
    /\ address_info = AddressInfo
    /\ ret = Return("__init__", "None", FALSE, "None", Null, <<>>)
    /\ service = NoCalls
    /\ probe = NoProbe
    /\ issued = NoRequest
    /\ other = NewInstance
    /\ session_state = NewSession
    /\ data_manager = NoTemplates
    /\ uuids = 0

\* a variant of start_conversation that binds the template and keeps the response map
start_conversation_keeping(template) ==
    /\ current_template' = template.id
    /\ personal_info' = PersonalInfo
    /\ address_info' = AddressInfo
    /\ ret' = Return("start_conversation", "welcome", FALSE, "None", Null, <<>>)
    /\ service' = NoCalls
    /\ issued' = Detached
    /\ UNCHANGED <<engine, current_question, responses, probe, other, session_state, data_manager, uuids>>

\* ChatbotEngine.start_conversation (the same code in both engines)
start_conversation(template) ==
    /\ current_template' = template.id
    /\ responses' = NoResponses
    /\ personal_info' = PersonalInfo
    /\ address_info' = AddressInfo
    /\ ret' = Return("start_conversation", "welcome", FALSE, "None", Null, <<>>)
    /\ service' = NoCalls
    /\ issued' = Detached
    /\ UNCHANGED <<engine, current_question, probe, other, session_state, data_manager, uuids>>

\* the assignment and the return value of get_next_question, q the question selected
SelectQuestion(q) ==
    /\ current_question' = IF q = Null THEN current_question ELSE q
    /\ ret' = Return("get_next_question", IF q = Null THEN "None" ELSE "question",
                     FALSE, "None", q, <<>>)

\* ChatbotEngine.get_next_question
get_next_question ==
    /\ engine = "chatbot_engine"
    /\ SelectQuestion(IF current_template = Null THEN Null
                      ELSE next_question(TemplateById(current_template), responses))
    /\ service' = NoCalls
    /\ UNCHANGED <<engine, current_template, responses, personal_info, address_info, probe,
                   issued, other, session_state, data_manager, uuids>>

\* a recording branch that leaves current_question on the question just answered
MoveOn_staying(q) ==
    /\ current_question' = current_question
    /\ ret' = Return("process_answer", "recorded", TRUE, "None", q, <<>>)

\* the end of the recording branch: q, the result of get_next_question, is returned
\* with the acknowledgement, and current_question keeps its value when q is None
MoveOn(q) ==
    /\ current_question' = IF q = Null THEN current_question ELSE q
    /\ ret' = Return("process_answer", "recorded", TRUE, "None", q, <<>>)

\* the branch of process_answer that stores a valid answer and moves on
RecordAnswer(user_input) ==
    /\ responses' = Store(responses, current_question, user_input)
    /\ personal_info' = update_standard_fields(QuestionById(current_question),
                                               user_input, personal_info)
    /\ address_info' = update_standard_fields(QuestionById(current_question),
                                              user_input, address_info)
    /\ MoveOn(IF current_template = Null THEN Null
              ELSE next_question(TemplateById(current_template), responses'))
    /\ UNCHANGED current_template

\* a refusal that drops the current question
Refuse_unsetting(result, suggestion) ==
    /\ ret' = Return("process_answer", result, FALSE, suggestion, Null, <<>>)
    /\ current_question' = Null
    /\ UNCHANGED <<current_template, responses, personal_info, address_info>>

\* a return of process_answer that records nothing
Refuse(result, suggestion) ==
    /\ ret' = Return("process_answer", result, FALSE, suggestion, Null, <<>>)
    /\ UNCHANGED session

\* ChatbotEngine._generate_intelligent_explanation: the service's explanation, or
\* the canned one when the call raises
generate_intelligent_explanation(reply) ==
    IF reply = LSFailure THEN "fallback_explanation" ELSE "explanation"

\* a process_answer that, finding no current question, fetches the next one as its
\* message announces
process_answer_fetching(user_input, reply) ==
    /\ engine = "chatbot_engine"
    /\ IF current_question = Null
       THEN /\ ret' = Return("process_answer", "no_current_question", FALSE, "None",
                             Null, <<>>)
            /\ current_question' =
                  IF current_template = Null THEN Null
                  ELSE next_question(TemplateById(current_template), responses)
            /\ UNCHANGED <<current_template, responses, personal_info, address_info>>
            /\ service' = NoCalls
       ELSE IF IntentTable[user_input].help \/ IntentTable[user_input].confusion
       THEN /\ Refuse(generate_intelligent_explanation(reply), "None")
            /\ service' = <<Outcome(reply)>>
       ELSE IF IntentTable[user_input].avoidance
       THEN Refuse("persuasion", "None") /\ service' = NoCalls
       ELSE /\ IF VerdictTable[current_question][user_input][reply].valid
               THEN RecordAnswer(user_input)
               ELSE Refuse("rejected",
                           VerdictTable[current_question][user_input][reply].suggestion)
            /\ service' = IF ConsultsTable[current_question][user_input]
                          THEN <<Outcome(reply)>> ELSE NoCalls
    /\ issued' = ReadThrough(responses', personal_info', address_info')
    /\ UNCHANGED <<engine, probe, other, session_state, data_manager, uuids>>

\* a process_answer whose response map is an attribute of the class, one dict for
\* every instance
process_answer_class_level(user_input, reply) ==
    /\ engine = "chatbot_engine"
    /\ IF current_question = Null
       THEN Refuse("no_current_question", "None") /\ service' = NoCalls
       ELSE IF IntentTable[user_input].help \/ IntentTable[user_input].confusion
       THEN /\ Refuse(generate_intelligent_explanation(reply), "None")
            /\ service' = <<Outcome(reply)>>
       ELSE IF IntentTable[user_input].avoidance
       THEN Refuse("persuasion", "None") /\ service' = NoCalls
       ELSE /\ IF VerdictTable[current_question][user_input][reply].valid
               THEN RecordAnswer(user_input)
               ELSE Refuse("rejected",
                           VerdictTable[current_question][user_input][reply].suggestion)
            /\ service' = IF ConsultsTable[current_question][user_input]
                          THEN <<Outcome(reply)>> ELSE NoCalls
    /\ issued' = ReadThrough(responses', personal_info', address_info')
    /\ other' = [other EXCEPT !.responses = responses']
    /\ UNCHANGED <<engine, probe, session_state, data_manager, uuids>>

\* ChatbotEngine.process_answer
process_answer(user_input, reply) ==
    /\ engine = "chatbot_engine"
    /\ IF current_question = Null
       THEN Refuse("no_current_question", "None") /\ service' = NoCalls
       ELSE IF IntentTable[user_input].help \/ IntentTable[user_input].confusion
       THEN /\ Refuse(generate_intelligent_explanation(reply), "None")
            /\ service' = <<Outcome(reply)>>
       ELSE IF IntentTable[user_input].avoidance
       THEN Refuse("persuasion", "None") /\ service' = NoCalls
       ELSE LET verdict == VerdictTable[current_question][user_input][reply]
            IN /\ IF verdict.valid
                  THEN RecordAnswer(user_input)
                  ELSE Refuse("rejected", verdict.suggestion)
               /\ service' = IF ConsultsTable[current_question][user_input]
                             THEN <<Outcome(reply)>> ELSE NoCalls
    /\ issued' = ReadThrough(responses', personal_info', address_info')
    /\ UNCHANGED <<engine, probe, other, session_state, data_manager, uuids>>

\* str(uuid.uuid4()): the values the generator hands out, in the order of the calls,
\* no two of them equal; a session draws no more than these
Uuids == <<"uuid4_1", "uuid4_2">>

\* the AssistanceRequest built from the session, with its form_id
AssistanceRequest(form_id) ==
    [form_id |-> form_id,
     personal_info |-> personal_info,
     address_info |-> address_info,
     custom_responses |-> responses]

\* ChatbotEngine.create_assistance_request: form_id is the id of the bound template,
\* and a new uuid when no template is bound
create_assistance_request ==
    /\ engine = "chatbot_engine"
    /\ current_template = Null => uuids < Len(Uuids)
    /\ uuids' = IF current_template = Null THEN uuids + 1 ELSE uuids
    /\ LET request == AssistanceRequest(IF current_template = Null
                                        THEN Uuids[uuids + 1] ELSE current_template)
       IN /\ ret' = Return("create_assistance_request", "AssistanceRequest", FALSE,
                           "None", Null, <<request>>)
          /\ issued' = Sharing(request)
    /\ service' = NoCalls
    /\ UNCHANGED <<engine, session, probe, other, session_state, data_manager>>

Next ==
    \/ \E t \in Templates : start_conversation(t)
    \/ get_next_question
    \/ \E u \in Inputs, reply \in JudgeReplies : process_answer(u, reply)
    \/ create_assistance_request

Spec == Init /\ [][Next]_vars

\* Two instances of chatbot_engine.ChatbotEngine: the caller turns to the second
\* instance, whose attributes the session variables hold from then on, while `other`
\* holds those of the instance left
turn_to_other ==
    /\ engine = "chatbot_engine"
    /\ current_template' = other.current_template
    /\ current_question' = other.current_question
    /\ responses' = other.responses
    /\ personal_info' = other.personal_info
    /\ address_info' = other.address_info
    /\ issued' = other.issued
    /\ other' = [current_template |-> current_template,
                 current_question |-> current_question,
                 responses |-> responses,
                 personal_info |-> personal_info,
                 address_info |-> address_info,
                 issued |-> issued]
    /\ UNCHANGED <<engine, ret, service, probe, session_state, data_manager, uuids>>

PairTemplates == {MaritalTemplate}
PairInputs == {U_Yes, U_JohnDoe, U_why}
PairReplies == {R_valid, R_off_topic}

NextPair ==
    \/ \E t \in PairTemplates : start_conversation(t)
    \/ get_next_question
    \/ \E u \in PairInputs, reply \in PairReplies : process_answer(u, reply)
    \/ create_assistance_request
    \/ turn_to_other

SpecPair == Init /\ [][NextPair]_vars

(***************************************************************************)
(* The session of chatbot_engine_new.ChatbotEngine, the engine the client  *)
(* interface imports.                                                      *)
(***************************************************************************)
NewTemplates == {DemoTemplate}
NewInputs == {U_Yes, U_No, U_empty, U_why}

\* __init__ of chatbot_engine_new.ChatbotEngine
InitNew ==
    /\ engine = "chatbot_engine_new"
    /\ current_template = Null
    /\ current_question = Null
    /\ responses = NoResponses
    /\ personal_info = PersonalInfo
    /\ address_info = AddressInfo
    /\ ret = Return("__init__", "None", FALSE, "None", Null, <<>>)
    /\ service = NoCalls
    /\ probe = NoProbe
    /\ issued = NoRequest
    /\ other = NewInstance
    /\ session_state = NewSession
    /\ data_manager = NoTemplates
    /\ uuids = 0

\* What the language service answers to the formatting call of _format_question: a
\* wording of the question, a text that is empty once stripped, or the call fails
FormatReplies == {"ok", "blank", "fails"}

\* the outcome of the formatting call as a call of the language service
Called(fmt) == IF fmt = "fails" THEN "fails" ELSE "ok"

\* chatbot_engine_new.ChatbotEngine._format_question: the service's wording of the
\* question, stripped, or the question text when the call raises
format_question(fmt) == IF fmt = "blank" THEN "" ELSE "question"

\* The engine reads st.session_state where it runs (get_selected_model before each
\* call of the language service, process_answer at its start, get_next_question once
\* it has set current_question). Under Streamlit such a read is where a rerun
\* requested in the meantime ends the script run: the read raises the runner's
\* RerunException, which is no Exception and which no handler of the engine catches,
\* so the call ends there without a return value. A call is cut before its analysis
\* call, before its formatting call, or not at all.
NextQuestionCuts == {"none", "before_formatting"}
ProcessAnswerCuts == {"none", "before_analysis", "before_formatting"}

\* a call that a rerun has ended
Rerun(op) == Return(op, "RerunException", FALSE, "None", Null, <<>>)

\* the assignment and the return value of get_next_question, q the question selected:
\* a selected question is made current and handed to _format_question, one call of
\* the language service; ret.question is the question whose text is returned
SelectQuestionNew(q, fmt, cut) ==
    /\ cut = "before_formatting" => q # Null
    /\ current_question' = IF q = Null THEN current_question ELSE q
    /\ ret' = IF cut = "before_formatting" THEN Rerun("get_next_question")
              ELSE Return("get_next_question",
                          IF q = Null THEN "None" ELSE format_question(fmt),
                          FALSE, "None",
                          IF q # Null /\ format_question(fmt) = "" THEN Null ELSE q, <<>>)
    /\ service' = IF q = Null \/ cut = "before_formatting" THEN NoCalls
                  ELSE <<Called(fmt)>>

\* chatbot_engine_new.ChatbotEngine.get_next_question; fmt is the outcome of the
\* formatting call, cut where a rerun ends the call
get_next_question_new(fmt, cut) ==
    /\ engine = "chatbot_engine_new"
    /\ cut \in NextQuestionCuts
    /\ SelectQuestionNew(IF current_template = Null THEN Null
                         ELSE next_question_new(TemplateById(current_template), responses),
                         fmt, cut)
    /\ UNCHANGED <<engine, current_template, responses, personal_info, address_info, probe,
                   issued, other, session_state, data_manager, uuids>>

\* the end of the recording branch: get_next_question makes q the current question,
\* and its text follows the confirmation in the message unless it is empty; cut in
\* get_next_question, the call ends with the answer recorded and nothing returned
MoveOnNew(q, fmt, cut) ==
    /\ cut = "before_formatting" => q # Null
    /\ current_question' = IF q = Null THEN current_question ELSE q
    /\ ret' = IF cut = "before_formatting" THEN Rerun("process_answer")
              ELSE Return("process_answer", "recorded", TRUE, "None",
                          IF q # Null /\ format_question(fmt) = "" THEN Null ELSE q, <<>>)

\* the recording branch, the same in process_answer and _simple_fallback_validation
RecordAnswerNew(user_input, fmt, cut) ==
    /\ responses' = Store(responses, current_question, user_input)
    /\ personal_info' = update_standard_fields_new(QuestionById(current_question),
                                                   user_input, personal_info)
    /\ address_info' = update_standard_fields_new(QuestionById(current_question),
                                                  user_input, address_info)
    /\ MoveOnNew(IF current_template = Null THEN Null
                 ELSE next_question_new(TemplateById(current_template), responses'),
                 fmt, cut)
    /\ UNCHANGED current_template

\* whether _simple_fallback_validation records the input
fallback_accepts(user_input, question) ==
    LET user_lower == Strip(Lower(user_input))
        valid_options == [i \in DOMAIN question.field_responses |->
                             Strip(Lower(question.field_responses[i]))]
    IN /\ Len(Strip(user_input)) > 0
       /\ \/ Len(question.field_responses) = 0
          \/ InList(user_lower, valid_options)
          \/ \E i \in DOMAIN valid_options : Contains(valid_options[i], user_lower)

FallbackTable ==
    [qid \in QuestionIds |-> [u \in NewInputs |-> fallback_accepts(u, QuestionById(qid))]]

\* chatbot_engine_new.ChatbotEngine._simple_fallback_validation: a refusal is the
\* message alone, without a suggestion
simple_fallback_validation(user_input, fmt, cut) ==
    IF FallbackTable[current_question][user_input]
    THEN RecordAnswerNew(user_input, fmt, cut)
    ELSE /\ cut = "none"
         /\ IF Len(Strip(user_input)) = 0
            THEN Refuse("provide_an_answer", "None")
            ELSE Refuse("choose_one_of_these_options", "None")

\* whether process_answer records the input on the service's JSON reply
analysis_records(reply) == reply.should_record /\ reply.is_valid_answer

\* what chatbot_engine_new.ChatbotEngine.process_answer does to the engine; reply is
\* the service's answer to the analysis call, fmt the outcome of the formatting call
\* made for the next question, cut where a rerun ends the call
ProcessAnswerNew(user_input, reply, fmt, cut) ==
    /\ engine = "chatbot_engine_new"
    /\ cut \in ProcessAnswerCuts
    /\ IF current_question = Null
       THEN /\ cut = "none"
            /\ Refuse("no_current_question", "None")
            /\ service' = NoCalls
       ELSE IF cut = "before_analysis"
       THEN /\ ret' = Rerun("process_answer")
            /\ service' = NoCalls
            /\ UNCHANGED session
       ELSE /\ IF reply.kind # "object"
               THEN simple_fallback_validation(user_input, fmt, cut)
               ELSE IF analysis_records(reply)
               THEN RecordAnswerNew(user_input, fmt, cut)
               ELSE cut = "none" /\ Refuse("guidance", reply.suggestion)
            /\ service' = <<IF reply.kind = "error" THEN "fails" ELSE "ok">>
                             \o (IF ret'.valid /\ current_question' # current_question
                                 THEN <<Called(fmt)>> ELSE NoCalls)
    /\ issued' = ReadThrough(responses', personal_info', address_info')
    /\ UNCHANGED <<engine, probe, other, data_manager, uuids>>

\* chatbot_engine_new.ChatbotEngine.process_answer, called on the engine alone
process_answer_new(user_input, reply, fmt, cut) ==
    /\ ProcessAnswerNew(user_input, reply, fmt, cut)
    /\ UNCHANGED session_state

\* chatbot_engine_new.ChatbotEngine.create_assistance_request
create_assistance_request_new ==
    /\ engine = "chatbot_engine_new"
    /\ IF current_template = Null
       THEN ret' = Return("create_assistance_request", "ValueError", FALSE, "None",
                          Null, <<>>)
       ELSE ret' = Return("create_assistance_request", "AssistanceRequest", FALSE, "None",
                          Null, <<AssistanceRequest(current_template)>>)
    /\ issued' = IF current_template = Null THEN issued
                 ELSE Sharing(AssistanceRequest(current_template))
    /\ service' = NoCalls
    /\ UNCHANGED <<engine, session, probe, other, session_state, data_manager, uuids>>

NextNew ==
    \/ \E t \in NewTemplates : start_conversation(t)
    \/ \E fmt \in FormatReplies, cut \in NextQuestionCuts : get_next_question_new(fmt, cut)
    \/ \E u \in NewInputs, reply \in AnalysisReplies, fmt \in FormatReplies,
          cut \in ProcessAnswerCuts : process_answer_new(u, reply, fmt, cut)
    \/ create_assistance_request_new

SpecNew == InitNew /\ [][NextNew]_vars

(***************************************************************************)
(* One conversation of chatbot_engine.ChatbotEngine: a template is bound   *)
(* once, the client calls get_next_question, and the respondent keeps      *)
(* answering until an answer is accepted.                                  *)
(***************************************************************************)
RunTemplates == Templates \cup IntakeTemplates \cup OrderTemplates
RunInputs == {U_Yes, U_No, U_JohnDoe, U_email_ok, U_why}

\* the first call of a session: the template is bound
bind_once == current_template = Null /\ \E t \in RunTemplates : start_conversation(t)

\* a process_answer call whose input is accepted
accepted_answer ==
    \E u \in RunInputs, reply \in JudgeReplies : process_answer(u, reply) /\ ret'.valid

NextRun ==
    \/ bind_once
    \/ get_next_question
    \/ \E u \in RunInputs, reply \in JudgeReplies : process_answer(u, reply)

\* the client asks for the next question when there is one to fetch, and a question
\* that is presented again and again eventually receives an accepted input
SpecRun ==
    Init /\ [][NextRun]_vars /\ WF_vars(get_next_question) /\ SF_vars(accepted_answer)

(***************************************************************************)
(* chatbot_engine.ChatbotEngine on the templates whose prompts carry the   *)
(* keywords of the standard fields, two of them the same keyword.          *)
(***************************************************************************)
FieldTemplates == {PhoneTemplate, ContactTemplate}

NextFields ==
    \/ \E t \in FieldTemplates : start_conversation(t)
    \/ get_next_question
    \/ \E u \in FieldInputs, reply \in JudgeReplies : process_answer(u, reply)
    \/ create_assistance_request

SpecFields == Init /\ [][NextFields]_vars

(***************************************************************************)
(* app.main, auth and client_interface: one browser session.  The keys of  *)
(* st.session_state are in session_state, the ChatbotEngine it holds under *)
(* 'chatbot' is the session of the engine variables.  user_info is the     *)
(* username whose entry of BUSINESS_USERS the key holds.  messages is the  *)
(* list of chat messages, kept as its first message, the welcome, which is *)
(* the key of the form it names, and the messages of the last handler that *)
(* appended: "question" for the first question, "user" for an input,       *)
(* "assistant" for the engine's response, "suggestion" for a suggestion.   *)
(* A handler runs inside a script run, and every read, write or deletion   *)
(* of a key of st.session_state is a place where a rerun requested in the  *)
(* meantime ends the run: what the handler wrote before stays, the rest of *)
(* it is not executed.                                                     *)
(***************************************************************************)
K_broomfield == <<"b","r","o","o","m","f","i","e","l","d">>
K_gateway_ymca == <<"g","a","t","e","w","a","y","_","y","m","c","a">>

\* auth.BUSINESS_USERS: two of the business users
BUSINESS_USERS ==
    [broomfield_admin |-> [business_name |-> O_broomfield, templates |-> {K_broomfield}],
     gateway_admin |-> [business_name |-> O_gateway_ymca, templates |-> {K_gateway_ymca}]]

\* DataManager() with the sample files of both organizations
SampleTemplates ==
    [templates |-> <<[key |-> K_broomfield, ref |-> 1],
                     [key |-> K_gateway_ymca, ref |-> 2]>>,
     objects |-> <<[id |-> 1, organization |-> O_broomfield, version |-> 1,
                    base_template_id |-> NoId, is_active |-> TRUE],
                   [id |-> 2, organization |-> O_gateway_ymca, version |-> 1,
                    base_template_id |-> NoId, is_active |-> TRUE]>>]

\* "Organization*" of the Create New Template page as an admin of the session fills
\* it in: the word whose key, lower case with underscores, is the key of the
\* Broomfield form
SessionOrganizations == {<<"b","r","o","o","m","f","i","e","l","d">>}

\* the questions added on the Create New Template page: questions without
\* conditional logic, as the page builds them
CreatedForm == ContactTemplate

\* the templates selected on the Edit Template page in the session: the versions of
\* the Broomfield form, the organization field left as it is
SessionRefs == (1..MaxObjects) \ {2}

\* data_manager.get_all_templates()[key] for the keys of get_user_templates: the
\* sample form loaded under the key, or the form created under it.  A version saved
\* by "Save Changes" or activated is stored under the keys of its organization's
\* name, which are not keys of get_user_templates
FormOfKey(key) ==
    LET ref == ValueOf(data_manager.templates, key)
    IN IF ref = 1 THEN SpouseTemplate
       ELSE IF ref = 2 THEN DemoTemplate
       ELSE CreatedForm

\* the key of get_user_templates a form is stored under
KeyOfForm(template_id) ==
    IF template_id \in {SpouseTemplate.id, CreatedForm.id}
    THEN K_broomfield ELSE K_gateway_ymca

ClientInputs == {U_Yes, U_No}

\* the replies of the analysis call followed in the browser session: its failure,
\* a text that is not JSON, an answer to record and a refusal, with and without a
\* suggestion
ClientReplies ==
    {reply \in AnalysisReplies :
        \/ reply.kind # "object"
        \/ reply.action = "answer" /\ reply.is_valid_answer = reply.should_record}

\* the outcomes of the formatting call followed in the browser session
ClientFormats == {"ok", "blank"}

InitClient ==
    /\ engine = "chatbot_engine_new"
    /\ current_template = Null
    /\ current_question = Null
    /\ responses = NoResponses
    /\ personal_info = PersonalInfo
    /\ address_info = AddressInfo
    /\ ret = Return("__init__", "None", FALSE, "None", Null, <<>>)
    /\ service = NoCalls
    /\ probe = NoProbe
    /\ issued = NoRequest
    /\ other = NewInstance
    /\ session_state = NewSession
    /\ data_manager = SampleTemplates
    /\ uuids = 0

\* auth.get_user_templates
get_user_templates ==
    IF session_state.user_info = Null THEN {}
    ELSE BUSINESS_USERS[session_state.user_info].templates

\* client_interface.show_chat_interface: what is shown below the chat history
show_chat_interface ==
    IF current_template # Null
       /\ Cardinality(DOMAIN responses) >= Len(TemplateById(current_template).questions)
    THEN "completion_interface"
    ELSE "answer_input"

\* client_interface.show_client_interface: user_info['business_name'] of a session
\* without user_info raises
show_client_interface ==
    IF session_state.user_info = Null THEN "TypeError"
    ELSE IF ~session_state.conversation_started
    THEN "organization_selection"
    ELSE show_chat_interface

\* app.main: the page of the current run
main ==
    IF ~session_state.authenticated THEN "login_page"
    ELSE IF session_state.interface_type = "client" THEN show_client_interface
    ELSE "admin_interface"

\* the writes of the login handler, in the order of the code; the second is of a key
\* the model does not keep
LoginWrites == <<"authenticated", "current_user", "user_info", "interface_type">>

\* auth.show_login_page: the login form is submitted with a user's credentials; the
\* handler ends after writes of its writes, all of them unless a rerun cuts it
login(username, interface_type, writes) ==
    /\ main = "login_page"
    /\ writes \in DOMAIN LoginWrites
    /\ session_state' =
          [session_state EXCEPT !.authenticated = TRUE,
                                !.user_info = IF writes >= 3 THEN username ELSE @,
                                !.interface_type = IF writes >= 4 THEN interface_type ELSE @]
    /\ UNCHANGED <<engine, session, ret, service, probe, issued, other, data_manager, uuids>>

\* the keys auth.logout deletes, in the order of the code (selected_interface and
\* admin_page, deleted before selected_template, are left out; current_user and
\* selected_template are keys the model does not keep)
LogoutDeletions ==
    <<"authenticated", "current_user", "user_info", "interface_type", "selected_template">>

\* auth.logout, the button show_user_header shows for a session with user_info; the
\* call ends after deletions of its deletions, all of them unless a rerun cuts it
logout(deletions) ==
    /\ session_state.authenticated
    /\ session_state.user_info # Null
    /\ deletions \in DOMAIN LogoutDeletions
    /\ session_state' =
          [session_state EXCEPT !.authenticated = FALSE,
                                !.user_info = IF deletions >= 3 THEN Null ELSE @,
                                !.interface_type = IF deletions >= 4 THEN Null ELSE @]
    /\ UNCHANGED <<engine, session, ret, service, probe, issued, other, data_manager, uuids>>

\* where a rerun ends the "Start with ..." handler: after start_conversation, in
\* get_next_question before the formatting call, after get_next_question, after
\* the first question is appended, after the write of conversation_started (the
\* write of selected_template is what is left), or not at all
SelectionCuts == {"none", "before_messages", "before_formatting", "before_first_question",
                  "before_conversation_started", "before_selected_template"}

\* the cuts of the "Start with ..." handler that come after the append of the first
\* question, and those after the write of conversation_started
AfterFirstQuestion == {"none", "before_conversation_started", "before_selected_template"}
AfterConversationStarted == {"none", "before_selected_template"}

\* client_interface.show_organization_selection: "Start with ..." on one of the
\* accessible templates: start_conversation, the welcome as the only message,
\* get_next_question and its question as the second message, conversation_started
show_organization_selection(key, fmt, cut) ==
    /\ main = "organization_selection"
    /\ key \in get_user_templates
    /\ HasKey(data_manager.templates, key)
    /\ cut \in SelectionCuts
    /\ current_template' = FormOfKey(key).id
    /\ responses' = NoResponses
    /\ personal_info' = PersonalInfo
    /\ address_info' = AddressInfo
    /\ issued' = Detached
    /\ IF cut = "before_messages"
       THEN /\ ret' = Return("start_conversation", "welcome", FALSE, "None", Null, <<>>)
            /\ service' = NoCalls
            /\ UNCHANGED <<current_question, session_state>>
       ELSE /\ SelectQuestionNew(next_question_new(FormOfKey(key), NoResponses), fmt,
                                 IF cut = "before_formatting" THEN cut ELSE "none")
            /\ cut = "before_first_question" => ret'.result \notin {"None", ""}
            /\ session_state' =
                  [session_state EXCEPT
                      !.messages =
                          IF cut \in AfterFirstQuestion /\ ret'.result \notin {"None", ""}
                          THEN <<key, "question">> ELSE <<key>>,
                      !.conversation_started =
                          IF cut \in AfterConversationStarted THEN TRUE ELSE @]
    /\ UNCHANGED <<engine, probe, other, data_manager, uuids>>

\* where a rerun ends the handler of an input: in process_answer, after it, after
\* the response is appended, or not at all
InputCuts == ProcessAnswerCuts \cup {"before_response", "before_suggestion"}

\* the messages an input handler appends: the input, the response of process_answer
\* and, where the handler shows suggestions, the suggestion of a refusal
Appended(cut, suggests) ==
    <<"user">>
        \o (IF cut \in {"none", "before_suggestion"} THEN <<"assistant">> ELSE <<>>)
        \o (IF cut = "none" /\ suggests /\ ~ret'.valid /\ ret'.suggestion # "None"
            THEN <<"suggestion">> ELSE <<>>)

\* the handler of an input of show_chat_interface: the input is appended,
\* process_answer is called, its response is appended
AnswerEntered(prompt, reply, fmt, cut, suggests) ==
    /\ cut \in InputCuts
    /\ ProcessAnswerNew(prompt, reply, fmt,
                        IF cut \in ProcessAnswerCuts THEN cut ELSE "none")
    /\ cut = "before_suggestion" => suggests /\ ~ret'.valid /\ ret'.suggestion # "None"
    /\ session_state' = [session_state EXCEPT
                             !.messages = <<@[1]>> \o Appended(cut, suggests)]

\* st.chat_input of show_chat_interface: a refusal's suggestion is a message too
chat_input(prompt, reply, fmt, cut) ==
    /\ main = "answer_input"
    /\ AnswerEntered(prompt, reply, fmt, cut, TRUE)

\* the question show_interactive_input shows buttons for
QuickSelectQuestion ==
    IF current_template = Null THEN Null
    ELSE next_question_new(TemplateById(current_template), responses)

\* the quick-select buttons of show_interactive_input, one for each option of a
\* question of at most five options whose type is in the function's own list, the
\* categorical types and 'multi select': the suggestion is not shown
quick_select(option, reply, fmt, cut) ==
    /\ main = "answer_input"
    /\ QuickSelectQuestion # Null
    /\ LET question == QuestionById(QuickSelectQuestion)
       IN /\ InList(Lower(question.field_type), categorical_types \o <<multi_types[2]>>)
          /\ Len(question.field_responses) <= 5
          /\ InList(option, question.field_responses)
    /\ AnswerEntered(option, reply, fmt, cut, FALSE)

\* the two appends of "Why is this needed?" and of "Show my answers": a user message
\* and the assistant's text; the handler ends after appends of them
QuickAnswer(appends) ==
    /\ appends \in 1..2
    /\ session_state' =
          [session_state EXCEPT
              !.messages = <<@[1], "user">>
                              \o (IF appends = 2 THEN <<"assistant">> ELSE <<>>)]
    /\ UNCHANGED <<engine, session, ret, service, probe, issued, other, data_manager, uuids>>

\* "Why is this needed?" of show_quick_actions: the help text of the current question
why_is_this_needed(appends) ==
    /\ main = "answer_input"
    /\ current_question # Null
    /\ QuickAnswer(appends)

\* "Show my answers" of show_quick_actions: generate_summary
show_my_answers(appends) ==
    /\ main = "answer_input"
    /\ QuickAnswer(appends)

\* the writes of "Start over", in the order of the code; the last is the deletion
\* of a key the model does not keep
StartOverWrites == <<"conversation_started", "messages", "chatbot", "selected_template">>

\* "Start over" of show_quick_actions: a new ChatbotEngine; the handler ends after
\* writes of its writes, all of them unless a rerun cuts it
start_over(writes) ==
    /\ main = "answer_input"
    /\ writes \in DOMAIN StartOverWrites
    /\ session_state' =
          [session_state EXCEPT !.conversation_started = FALSE,
                                !.messages = IF writes >= 2 THEN <<>> ELSE @]
    /\ IF writes >= 3
       THEN /\ current_template' = Null
            /\ current_question' = Null
            /\ responses' = NoResponses
            /\ personal_info' = PersonalInfo
            /\ address_info' = AddressInfo
            /\ ret' = Return("__init__", "None", FALSE, "None", Null, <<>>)
            /\ service' = NoCalls
            /\ issued' = NoRequest
       ELSE UNCHANGED <<session, ret, service, issued>>
    /\ UNCHANGED <<engine, probe, other, data_manager, uuids>>

\* "Submit Application" of show_completion_interface
submit_application ==
    /\ main = "completion_interface"
    /\ create_assistance_request_new

(***************************************************************************)
(* The admin interface on the template store: templates are created,       *)
(* active versions are edited into new versions, and versions are          *)
(* activated.                                                              *)
(***************************************************************************)
\* st.session_state after a login to the admin portal
AdminSession(username) ==
    [NewSession EXCEPT !.authenticated = TRUE, !.user_info = username,
                       !.interface_type = "admin"]

\* admin_interface.show_admin_interface: the admin pages are shown, and the session
\* has the user_info they read the business name from
show_admin_interface ==
    /\ main = "admin_interface"
    /\ session_state.user_info # Null

InitStore ==
    /\ engine = "chatbot_engine"
    /\ current_template = Null
    /\ current_question = Null
    /\ responses = NoResponses
    /\ personal_info = PersonalInfo
    /\ address_info = AddressInfo
    /\ ret = Return("__init__", "None", FALSE, "None", Null, <<>>)
    /\ service = NoCalls
    /\ probe = NoProbe
    /\ issued = NoRequest
    /\ other = NewInstance
    /\ session_state \in {AdminSession(username) : username \in DOMAIN BUSINESS_USERS}
    /\ data_manager \in {NoTemplates, LoadedTemplates}
    /\ uuids = 0

\* admin_interface.create_new_template: the form is submitted for an organization
create_new_template(organization) ==
    /\ show_admin_interface
    /\ Len(data_manager.objects) < MaxObjects
    /\ data_manager' = save_template(data_manager,
           NewFormTemplate(Len(data_manager.objects) + 1, organization, 1, NoId))
    /\ UNCHANGED <<engine, session, ret, service, probe, issued, other, session_state, uuids>>

\* the versions the admin pages list: get_template_versions of the business name of
\* the user logged in
template_versions ==
    Range(get_template_versions(data_manager,
                                BUSINESS_USERS[session_state.user_info].business_name))

\* admin_interface.edit_existing_template: "Save Changes" on an active version of
\* the list, the organization field left as it is
edit_existing_template(ref) ==
    /\ show_admin_interface
    /\ Len(data_manager.objects) < MaxObjects
    /\ ref \in template_versions
    /\ data_manager.objects[ref].is_active
    /\ data_manager' = save_template(data_manager,
           NewFormTemplate(Len(data_manager.objects) + 1,
                           data_manager.objects[ref].organization,
                           data_manager.objects[ref].version + 1,
                           IF data_manager.objects[ref].base_template_id # NoId
                           THEN data_manager.objects[ref].base_template_id
                           ELSE data_manager.objects[ref].id))
    /\ UNCHANGED <<engine, session, ret, service, probe, issued, other, session_state, uuids>>

\* "Activate" of show_templates_overview: the button of a listed version that is not
\* active calls set_active_template
activate_version(template_id) ==
    /\ show_admin_interface
    /\ template_id \in template_versions
    /\ ~data_manager.objects[template_id].is_active
    /\ data_manager' = set_active_template(data_manager, template_id)
    /\ UNCHANGED <<engine, session, ret, service, probe, issued, other, session_state, uuids>>

NextStore ==
    \/ \E organization \in Organizations : create_new_template(organization)
    \/ \E ref \in 1..MaxObjects : edit_existing_template(ref)
    \/ \E template_id \in 1..MaxObjects : activate_version(template_id)

SpecStore == InitStore /\ [][NextStore]_vars

\* one browser session: the login page, the client interface and the handlers of the
\* admin interface that change the template store
NextClient ==
    \/ \E username \in DOMAIN BUSINESS_USERS, interface_type \in {"client", "admin"},
          writes \in DOMAIN LoginWrites : login(username, interface_type, writes)
    \/ \E deletions \in DOMAIN LogoutDeletions : logout(deletions)
    \/ \E key \in {K_broomfield, K_gateway_ymca}, fmt \in ClientFormats,
          cut \in SelectionCuts : show_organization_selection(key, fmt, cut)
    \/ \E prompt \in ClientInputs, reply \in ClientReplies, fmt \in ClientFormats,
          cut \in InputCuts : chat_input(prompt, reply, fmt, cut)
    \/ \E option \in ClientInputs, reply \in ClientReplies, fmt \in ClientFormats,
          cut \in InputCuts : quick_select(option, reply, fmt, cut)
    \/ \E appends \in 1..2 : why_is_this_needed(appends)
    \/ \E appends \in 1..2 : show_my_answers(appends)
    \/ \E writes \in DOMAIN StartOverWrites : start_over(writes)
    \/ submit_application
    \/ \E organization \in SessionOrganizations : create_new_template(organization)
    \/ \E ref \in SessionRefs : edit_existing_template(ref)
    \/ \E template_id \in 1..MaxObjects : activate_version(template_id)

SpecClient == InitClient /\ [][NextClient]_vars

(***************************************************************************)
(* chatbot_engine.ChatbotEngine on a template with a single-choice         *)
(* question, answered with the texts of its choices.                       *)
(***************************************************************************)
ChoiceTemplates == {ChoiceTemplate}

NextChoice ==
    \/ \E t \in ChoiceTemplates : start_conversation(t)
    \/ get_next_question
    \/ \E u \in ChoiceInputs, reply \in JudgeReplies : process_answer(u, reply)
    \/ create_assistance_request

SpecChoice == Init /\ [][NextChoice]_vars

(***************************************************************************)
(* chatbot_engine.ChatbotEngine on the templates whose rules depend on the *)
(* order of the questions: rules that refer to a later question, and the   *)
(* rule on alternate contacts.                                             *)
(***************************************************************************)
OrderInputs == {U_Yes, U_No, U_JohnDoe, U_why}

NextOrder ==
    \/ \E t \in OrderTemplates : start_conversation(t)
    \/ get_next_question
    \/ \E u \in OrderInputs, reply \in JudgeReplies : process_answer(u, reply)
    \/ create_assistance_request

SpecOrder == Init /\ [][NextOrder]_vars

(***************************************************************************)
(* chatbot_engine.ChatbotEngine on the intake templates: the marital and   *)
(* spouse questions, the branch rules on the partner questions, and the    *)
(* questions of the standard fields.                                       *)
(***************************************************************************)
IntakeInputs == {U_Yes, U_No, U_yes_padded, U_JohnDoe, U_why}

NextIntake ==
    \/ \E t \in IntakeTemplates : start_conversation(t)
    \/ get_next_question
    \/ \E u \in IntakeInputs, reply \in JudgeReplies : process_answer(u, reply)
    \/ create_assistance_request

SpecIntake == Init /\ [][NextIntake]_vars

(***************************************************************************)
(* Either engine: an instance of chatbot_engine.ChatbotEngine or of        *)
(* chatbot_engine_new.ChatbotEngine, each on its own templates and inputs. *)
(***************************************************************************)
InitEither == Init \/ InitNew

NextEither ==
    \/ \E t \in Templates : engine = "chatbot_engine" /\ start_conversation(t)
    \/ \E t \in NewTemplates : engine = "chatbot_engine_new" /\ start_conversation(t)
    \/ get_next_question
    \/ \E u \in Inputs, reply \in JudgeReplies : process_answer(u, reply)
    \/ create_assistance_request
    \/ \E fmt \in FormatReplies, cut \in NextQuestionCuts : get_next_question_new(fmt, cut)
    \/ \E u \in NewInputs, reply \in AnalysisReplies, fmt \in FormatReplies,
          cut \in ProcessAnswerCuts : process_answer_new(u, reply, fmt, cut)
    \/ create_assistance_request_new

SpecEither == InitEither /\ [][NextEither]_vars

(***************************************************************************)
(* The validator of chatbot_engine.py run alone: _validate_answer applied  *)
(* to one question, one answer and one reply of the language service.      *)
(***************************************************************************)
InitValidate ==
    /\ engine = "chatbot_engine"
    /\ current_template = Null
    /\ current_question = Null
    /\ responses = NoResponses
    /\ personal_info = PersonalInfo
    /\ address_info = AddressInfo
    /\ ret = Return("__init__", "None", FALSE, "None", Null, <<>>)
    /\ service = NoCalls
    /\ probe \in [question : QuestionIds, answer : ProbeInputs, reply : JudgeReplies,
                  verdict : {Reject("not_run")}]
    /\ issued = NoRequest
    /\ other = NewInstance
    /\ session_state = NewSession
    /\ data_manager = NoTemplates
    /\ uuids = 0

\* is_valid, suggestion = self._validate_answer(answer, question)
run_validate_answer ==
    /\ probe.verdict = Reject("not_run")
    /\ probe' = [probe EXCEPT !.verdict =
                    validate_answer(probe.answer, QuestionById(probe.question), probe.reply)]
    /\ UNCHANGED <<engine, session, ret, service, issued, other, session_state, data_manager, uuids>>

NextValidate == run_validate_answer

SpecValidate == InitValidate /\ [][NextValidate]_vars

(***************************************************************************)
(* Properties.                                                             *)
(***************************************************************************)
BoundTemplate == TemplateById(current_template)

\* the session is Completed: a template is bound and every required question has an
\* entry or is skipped under the current responses
Completed ==
    /\ current_template # Null
    /\ \A q \in Range(BoundTemplate.questions) :
          q.required => \/ q.id \in DOMAIN responses
                        \/ should_skip_question(q, BoundTemplate, responses)

AcceptStep == ret'.op = "process_answer" /\ ret'.valid
RefuseStep == ret'.op = "process_answer" /\ ~ret'.valid
NextPromptStep == ret'.op = "get_next_question"

\* C1: whenever process_answer accepts an answer the response map has exactly one
\* more entry than before and current_question is unset when the call returns, and
\* it stays unset until get_next_question is called again.
C1_AcceptGrowsAndUnsets ==
    [][/\ AcceptStep =>
            /\ Cardinality(DOMAIN responses') = Cardinality(DOMAIN responses) + 1
            /\ current_question' = Null
       /\ (current_question = Null /\ ~NextPromptStep) => current_question' = Null]_vars

\* C2: response-map entries are append-only: no process_answer or get_next_question
\* call changes or removes an entry that is already recorded, also after the session
\* has reached completion.
C2_AppendOnly ==
    [][(AcceptStep \/ RefuseStep \/ NextPromptStep) =>
          \A qid \in DOMAIN responses :
              qid \in DOMAIN responses' /\ responses'[qid] = responses[qid]]_vars

\* C3: create_assistance_request produces a record only when the session is
\* Completed; with a required question neither answered nor skipped it fails and
\* produces no record.
C3_RecordOnlyWhenCompleted ==
    (ret.op = "create_assistance_request" /\ ret.request # <<>>) => Completed

\* the questions under a rule "If Q<order> = '<value>'", as the templates write them
EqualsRules ==
    {[template |-> "demo", question |-> "d2", order |-> 1, value |-> <<"Y","e","s">>],
     [template |-> "late", question |-> "l1", order |-> 3, value |-> <<" ","Y","E","S"," ">>]}

\* C4: a question under Equals(order = n, v) is skipped when question n is unanswered
\* or its recorded answer differs from v, and is not skipped when the recorded answer
\* equals v after trimming whitespace and ignoring case.
C4_EqualsRuleDecidesSkip ==
    \A r \in EqualsRules :
        current_template = r.template =>
            LET ref == CHOOSE q \in Range(BoundTemplate.questions) : q.number = r.order
            IN should_skip_question(QuestionById(r.question), BoundTemplate, responses)
                 = (\/ ref.id \notin DOMAIN responses
                    \/ Lower(Strip(responses[ref.id])) # Lower(Strip(r.value)))

\* C4 witness: the referenced answer " yes " differs from 'Yes' in case and blanks, and
\* the question under the rule is not skipped
C4_Witness ==
    /\ current_template = "demo"
    /\ "d1" \in DOMAIN responses
    /\ responses["d1"] = U_yes_padded
    /\ ~should_skip_question(QuestionById("d2"), BoundTemplate, responses)

\* C5: get_next_question called again with no accepted answer in between returns the
\* same question and leaves the session as the first call left it: no step from a
\* state a get_next_question call returned in to another such state changes anything.
C5_NextPromptIdempotent ==
    [][(ret.op = "get_next_question" /\ NextPromptStep) => UNCHANGED <<session, ret>>]_vars

\* C5 witness: get_next_question has returned a question in mid-conversation (the
\* deferred question of the late template, after its condition was answered)
C5_Witness ==
    /\ ret.op = "get_next_question"
    /\ ret.question = "l1"
    /\ current_question = "l1"
    /\ "l2" \in DOMAIN responses

\* the questions still to present: no entry and not skipped
Remaining ==
    {q \in Range(BoundTemplate.questions) :
        /\ q.id \notin DOMAIN responses
        /\ ~should_skip_question(q, BoundTemplate, responses)}

\* C6: get_next_question returns the remaining question of least order and makes it
\* current_question; it returns None exactly when no question remains.
C6_NextPromptIsFirstRemaining ==
    (ret.op = "get_next_question" /\ current_template # Null) =>
        IF Remaining = {}
        THEN ret.result = "None" /\ ret.question = Null
        ELSE /\ ret.result = "question"
             /\ ret.question \in {q.id : q \in Remaining}
             /\ \A q \in Remaining : QuestionById(ret.question).number <= q.number
             /\ current_question = ret.question

\* C6 witness: get_next_question passed over the skipped spouse question and
\* returned the email question
C6_Witness ==
    /\ ret.op = "get_next_question"
    /\ ret.question = "d3"
    /\ DOMAIN responses = {"d1"}

\* C7: a process_answer call that does not accept the input leaves the response map,
\* PersonalInfo, AddressInfo, the bound template and current_question as they were.
C7_RefusalChangesNothing == [][RefuseStep => UNCHANGED session]_vars

\* C7 witness: the validator has rejected an answer to the email question in
\* mid-conversation
C7_Witness ==
    /\ ret.op = "process_answer"
    /\ ret.result = "rejected"
    /\ ret.suggestion = "valid_email_address"
    /\ current_question = "d3"
    /\ DOMAIN responses # {}

\* C8: in the language-service-driven engine an input the service classifies as help
\* or avoid is never recorded: that process_answer call changes nothing of the
\* session, whatever the other fields of the reply are.
C8_HelpAndAvoidNeverRecorded ==
    [][\A u \in NewInputs, reply \in AnalysisReplies, fmt \in FormatReplies,
          cut \in ProcessAnswerCuts :
          (/\ reply.kind = "object"
           /\ reply.action \in {"help", "avoid"}
           /\ process_answer_new(u, reply, fmt, cut)) => UNCHANGED session]_vars

\* the answer matches local@domain.tld
MatchesEmail(answer) == FullMatch(email_pattern, Strip(answer))

\* C9: for an email question the verdict is the email-format rule's alone:
\* "john@example.com" and every other matching answer is accepted, "john@example",
\* "not-an-email" and every other non-matching answer is rejected, whatever the
\* language service answers.
C9_EmailRuleDecides ==
    (probe.question = "d3" /\ probe.verdict.suggestion # "not_run") =>
        /\ probe.verdict.valid = MatchesEmail(probe.answer)
        /\ probe.answer = U_email_ok => probe.verdict.valid
        /\ probe.answer \in {U_email_notld, U_email_bad} => ~probe.verdict.valid

\* C10: for the single-choice question whose choices are exactly Yes and No the
\* validator accepts y/yes/yep/yeah and n/no/nope/nah, and rejects with the Yes-or-No
\* guidance every answer of more than three words that is neither a choice nor a
\* synonym.
C10_YesNoSynonymsAndGuidance ==
    (probe.question = "l2" /\ probe.verdict.suggestion # "not_run") =>
        /\ probe.answer \in YesSynonyms \cup NoSynonyms => probe.verdict.valid
        /\ (/\ WordCount(probe.answer) > 3
            /\ Lower(Strip(probe.answer)) \notin YesSynonyms \cup NoSynonyms)
           => probe.verdict = Reject("simple_yes_or_no")

\* the answer text contains one of the question's choices, ignoring case
MentionsChoice(answer, question) ==
    \E i \in DOMAIN question.field_responses :
        Contains(Lower(answer), Lower(question.field_responses[i]))

\* C11: for the multi-choice question with choices Housing, Food, Healthcare the
\* validator accepts an answer exactly when the answer text contains one of the choices
\* as a case-insensitive substring ("Housing and Food" accepted, "Transportation"
\* rejected), and the verdict is the same whatever the language service would answer.
C11_MultiChoiceBySubstring ==
    (probe.question = "c1" /\ probe.verdict.suggestion # "not_run") =>
        /\ probe.verdict.valid = MentionsChoice(probe.answer, QuestionById("c1"))
        /\ probe.answer = U_housing_and_food => probe.verdict = Accept
        /\ probe.answer = U_transportation =>
               probe.verdict = Reject("select_from_these_options")
        /\ \A reply \in JudgeReplies :
               validate_answer(probe.answer, QuestionById("c1"), reply) = probe.verdict

\* C11 witness: "Housing and Food" is accepted while the language service would have
\* judged the answer off-topic
C11_Witness ==
    /\ probe.question = "c1"
    /\ probe.answer = U_housing_and_food
    /\ probe.reply = R_off_topic
    /\ probe.verdict = Accept

\* the marital question of the marital template has the recorded answer "No"
MaritalNo ==
    /\ current_template = "marital"
    /\ "m1" \in DOMAIN responses
    /\ Norm(responses["m1"]) = <<"n","o">>

\* the last call presented the spouse question
SpousePresented ==
    /\ ret.op \in {"get_next_question", "process_answer"}
    /\ ret.question = "m2"

\* C12: in the template whose spouse question (no branch rule) follows the marital
\* question, while the marital question is answered "No" no call presents the spouse
\* question, and the accepted "No" itself returns completion, the spouse question
\* being the last one.
C12_SpouseSkippedAfterNo ==
    /\ [](MaritalNo => ~SpousePresented)
    /\ [][(/\ current_template = "marital"
           /\ current_question = "m1"
           /\ AcceptStep
           /\ Norm(responses'["m1"]) = <<"n","o">>)
          => (ret'.question = Null /\ ret'.result = "recorded")]_vars

\* C12 witness: "No" was accepted for the marital question and the call found no
\* further question, the spouse question being unanswered
C12_Witness ==
    /\ MaritalNo
    /\ DOMAIN responses = {"m1"}
    /\ ret.op = "process_answer"
    /\ ret.valid
    /\ ret.question = Null

\* a process_answer call whose judgment call to the language service raised: the
\* call made one service call, it failed, and it was not the explanation call
JudgmentFailedStep ==
    /\ ret'.op = "process_answer"
    /\ service' = <<"fails">>
    /\ ret'.result # "fallback_explanation"

\* C13: when the language-service call made for the open-ended judgment fails, the
\* validator accepts the answer: process_answer returns valid, the input is recorded
\* under the current question and the call moves on to the next question.
C13_JudgmentFailsOpen ==
    [][JudgmentFailedStep =>
          /\ ret'.valid
          /\ ret'.result = "recorded"
          /\ current_question \in DOMAIN responses'
          /\ \E u \in Inputs : responses' = Store(responses, current_question, u)
          /\ ret'.question = next_question(TemplateById(current_template'), responses')]_vars

\* C13 witness: the judgment call failed while the spouse's name was being validated;
\* the name is recorded and the email question is next
C13_Witness ==
    /\ ret.op = "process_answer"
    /\ service = <<"fails">>
    /\ ret.valid
    /\ current_template = "demo"
    /\ "d2" \in DOMAIN responses
    /\ ret.question = "d3"

\* what process_answer and get_next_question return when nothing is raised
ProcessAnswerResults ==
    {"no_current_question", "explanation", "fallback_explanation", "persuasion",
     "rejected", "recorded", "guidance", "provide_an_answer",
     "choose_one_of_these_options"}
NextQuestionResults == {"question", "", "None"}

\* the replies of the analysis call that are its failure
FailedAnalysis == {reply \in AnalysisReplies : reply.kind = "error"}

\* the last call made a language-service call that failed
ServiceFailed(calls) == \E i \in DOMAIN calls : calls[i] = "fails"

\* C14: no failure of the language service leaves process_answer or get_next_question
\* of either engine as an error: a call in which a language-service call failed
\* returns one of its normal results, and the failed call is answered by the default:
\* the canned explanation or the accepted answer in chatbot_engine.py; in
\* chatbot_engine_new.py the question text, and the input treated as an answer by the
\* simple validation, whose verdict the call returns.
C14_ServiceFailuresCaught ==
    [][/\ (ret'.op = "process_answer" /\ ServiceFailed(service'))
             => ret'.result \in ProcessAnswerResults
       /\ (ret'.op = "get_next_question" /\ ServiceFailed(service'))
             => ret'.result \in NextQuestionResults
       /\ (ret'.op = "process_answer" /\ engine = "chatbot_engine" /\ ServiceFailed(service'))
             => \/ ret'.result = "fallback_explanation"
                \/ ret'.result = "recorded" /\ ret'.valid
       /\ (ret'.op = "get_next_question" /\ ServiceFailed(service'))
             => (ret'.result = "question" /\ current_question' = ret'.question)
       /\ (engine = "chatbot_engine_new" /\ ret'.op = "process_answer"
              /\ current_question # Null /\ Len(service') > 0 /\ service'[1] = "fails")
          => \A u \in NewInputs, reply \in FailedAnalysis, fmt \in FormatReplies,
                cut \in ProcessAnswerCuts :
                process_answer_new(u, reply, fmt, cut)
             => /\ ret'.valid = FallbackTable[current_question][u]
                /\ ret'.valid => responses' = Store(responses, current_question, u)
                /\ ~ret'.valid => UNCHANGED session]_vars

\* the questions under a rule, as the branch template writes them:
\* n2 "Skip if Q1 != 'No'" and n3 "If Q2 = 'Yes'"
BranchRules ==
    {[kind |-> "NotEquals", template |-> "branch", question |-> "n2", order |-> 1,
      value |-> <<"N","o">>],
     [kind |-> "Equals", template |-> "branch", question |-> "n3", order |-> 2,
      value |-> <<"Y","e","s">>]}

\* the question of the bound template that a rule refers to
Referenced(r) == CHOOSE q \in Range(BoundTemplate.questions) : q.number = r.order

\* the skip evaluator's decision for the question under rule r
SkipsUnder(r) == should_skip_question(QuestionById(r.question), BoundTemplate, responses)

\* C15: a question under NotEquals(order = n, v) ("Skip if Q<n> != '<v>'") is skipped
\* exactly when question n has a recorded answer that differs from v after trimming
\* and ignoring case; while question n is unanswered it is not skipped.
C15_NotEqualsRuleDecidesSkip ==
    \A r \in {x \in BranchRules : x.kind = "NotEquals"} :
        current_template = r.template =>
            SkipsUnder(r) = (/\ Referenced(r).id \in DOMAIN responses
                             /\ Lower(Strip(responses[Referenced(r).id]))
                                   # Lower(Strip(r.value)))

\* C15 witness: the marital question is answered "Yes", which is not the expected
\* 'No', and the question under the rule is skipped
C15_Witness ==
    /\ current_template = "branch"
    /\ DOMAIN responses = {"n1"}
    /\ responses["n1"] = U_Yes
    /\ should_skip_question(QuestionById("n2"), BoundTemplate, responses)

\* the referenced question of rule r has a recorded answer
ReferencedAnswered(r) == Referenced(r).id \in DOMAIN responses

\* the recorded answer of the referenced question, trimmed and case-folded, equals the
\* expected value
AnswerEqualsExpected(r) ==
    Lower(Strip(responses[Referenced(r).id])) = Lower(Strip(r.value))

\* C16 as stated: with the referenced question answered, an Equals rule skips when the
\* answer and the expected value are unequal and a NotEquals rule skips when they are
\* equal.
C16_NotEqualsSkipsWhenEqual ==
    \A r \in BranchRules :
        (current_template = r.template /\ ReferencedAnswered(r)) =>
            SkipsUnder(r) = IF r.kind = "Equals" THEN ~AnswerEqualsExpected(r)
                            ELSE AnswerEqualsExpected(r)

\* C16 amended: with the referenced question answered, the skip evaluator compares the
\* trimmed, case-folded stored answer to the expected value, and an Equals rule and a
\* NotEquals rule both skip when they are unequal and present the question when they
\* are equal.
C16_BothRulesSkipWhenUnequal ==
    \A r \in BranchRules :
        (current_template = r.template /\ ReferencedAnswered(r)) =>
            SkipsUnder(r) = ~AnswerEqualsExpected(r)

\* C16 witness: "No" to the marital question equals the expected 'No' of the NotEquals
\* rule, so the partner question was presented; " yes " to it equals the expected
\* 'Yes' of the Equals rule, so the partner's name is asked next
C16_Witness ==
    /\ current_template = "branch"
    /\ DOMAIN responses = {"n1", "n2"}
    /\ responses["n1"] = U_No
    /\ responses["n2"] = U_yes_padded
    /\ ret.question = "n3"

\* the questions whose conditional logic parses as an Equals or a NotEquals rule
ExplicitQuestions ==
    {q \in AllQuestions :
        /\ ~NoLogic(q)
        /\ (ParsedLogic[q.id].match1.matched \/ ParsedLogic[q.id].match2.matched)}

\* the outcome of the explicit rule alone: Equals skips unless the referenced answer
\* equals the expected value, NotEquals skips when a referenced answer differs from it
RuleOutcome(q, template, resp) ==
    LET rule == IF ParsedLogic[q.id].match1.matched THEN ParsedLogic[q.id].match1
                ELSE ParsedLogic[q.id].match2
        answered == {x \in Range(template.questions) :
                        x.number = rule.num /\ x.id \in DOMAIN resp}
    IN IF ParsedLogic[q.id].match1.matched
       THEN \A x \in answered : Norm(resp[x.id]) # rule.value
       ELSE \E x \in answered : Norm(resp[x.id]) # rule.value

\* every response map over the questions of a template with answers Yes, No, " yes "
RuleMaps(template) ==
    UNION {[S -> {U_Yes, U_No, U_yes_padded}] :
              S \in SUBSET {q.id : q \in Range(template.questions)}}

\* the skip decision equals the rule's outcome on every such map of every template
RuleAloneOnEveryMap ==
    \A t \in AllTemplates : \A q \in Range(t.questions) \cap ExplicitQuestions :
        \A resp \in RuleMaps(t) :
            should_skip_question(q, t, resp) = RuleOutcome(q, t, resp)

\* C17: for a question whose conditional logic parses as an Equals or NotEquals rule
\* the skip decision is the outcome of that rule alone, in every reachable state and
\* on every response map: a smart rule never turns its 'present' into a skip or its
\* skip into a 'present'.
C17_ExplicitRuleAlone ==
    /\ RuleAloneOnEveryMap
    /\ current_template # Null =>
          \A q \in Range(BoundTemplate.questions) \cap ExplicitQuestions :
              should_skip_question(q, BoundTemplate, responses)
                  = RuleOutcome(q, BoundTemplate, responses)

\* C17 witness: after "No" to the marital question the smart spouse rule would skip
\* the partner question, the explicit rule presents it, and it is presented
C17_Witness ==
    /\ current_template = "branch"
    /\ DOMAIN responses = {"n1"}
    /\ responses["n1"] = U_No
    /\ apply_smart_skip_rules(QuestionById("n2"), BoundTemplate, responses)
    /\ ~should_skip_question(QuestionById("n2"), BoundTemplate, responses)
    /\ ret.question = "n2"

\* the questions of the bound template whose conditional logic parses as an Equals rule
EqualsQuestions ==
    {q \in Range(BoundTemplate.questions) :
        ~NoLogic(q) /\ ParsedLogic[q.id].match1.matched}

\* the referenced question of an Equals rule is answered with the expected value
EqualsRuleSatisfied(q) ==
    \E x \in Range(BoundTemplate.questions) :
        /\ x.number = ParsedLogic[q.id].match1.num
        /\ x.id \in DOMAIN responses
        /\ Norm(responses[x.id]) = ParsedLogic[q.id].match1.value

\* C18: in the engine the client interface imports, a question with an Equals rule is
\* presented only while its referenced question is answered with the expected value:
\* never while that question is unanswered or answered with a different value.
C18_EqualsQuestionHeldBack ==
    (engine = "chatbot_engine_new" /\ current_template # Null) =>
        \A q \in EqualsQuestions :
            (ret.op \in {"get_next_question", "process_answer"} /\ ret.question = q.id)
                => EqualsRuleSatisfied(q)

\* the attribute the priority list selects for each question of the intake templates:
\* "first name" for f1, "city" (listed before "state") for f2, no keyword for the rest
IntakeField ==
    [qid \in {q.id : q \in UNION {Range(t.questions) : t \in IntakeTemplates}} |->
        IF qid = "f1" THEN "person_first_name"
        ELSE IF qid = "f2" THEN "address_city"
        ELSE "None"]

\* the attributes of PersonalInfo and AddressInfo a step changes
ChangedAttributes ==
    {f \in PersonalFields : personal_info'[f] # personal_info[f]}
        \cup {f \in AddressFields : address_info'[f] # address_info[f]}

\* the value an attribute holds after the step
AttributeAfter(f) ==
    IF f \in PersonalFields THEN personal_info'[f] ELSE address_info'[f]

\* C19: an accepted answer changes at most one attribute of PersonalInfo/AddressInfo,
\* the one the first matching keyword of the prompt selects, and sets it to the answer;
\* an accepted answer whose prompt matches no keyword changes none; and no other
\* operation of a conversation changes an attribute (start_conversation, which resets
\* them, begins another conversation).
C19_OneAttributePerAnswer ==
    [][/\ AcceptStep =>
            /\ ChangedAttributes \subseteq {IntakeField[current_question]}
            /\ IntakeField[current_question] # "None" =>
                  AttributeAfter(IntakeField[current_question]) = responses'[current_question]
       /\ (~AcceptStep /\ ret'.op # "start_conversation") => ChangedAttributes = {}]_vars

\* C19 witness: both contact answers were accepted; the first name and the city are
\* set, the state, whose keyword also occurs in the second prompt, is not
C19_Witness ==
    /\ current_template = "contact"
    /\ ret.op = "process_answer" /\ ret.valid
    /\ DOMAIN responses = {"f1", "f2"}
    /\ personal_info.person_first_name = responses["f1"]
    /\ address_info.address_city = responses["f2"]
    /\ address_info.address_state = None
    /\ \A f \in PersonalFields \ {"person_first_name"} : personal_info[f] = None

\* the question each template presents first: d1 opens the demo template; the late
\* template opens with l2, its first question l1 waiting for the answer to question 3
FirstPresented == [tid \in {t.id : t \in Templates} |->
                      IF tid = "demo" THEN "d1" ELSE "l2"]

\* C20: start_conversation, called in any session state, empties the response map,
\* unsets every attribute of PersonalInfo and AddressInfo and binds the given template,
\* and the get_next_question that follows presents the first question of that template.
C20_StartConversationResets ==
    [][/\ \A t \in Templates : start_conversation(t) =>
              /\ responses' = NoResponses
              /\ \A f \in PersonalFields : personal_info'[f] = None
              /\ \A f \in AddressFields : address_info'[f] = None
              /\ current_template' = t.id
       /\ (ret.op = "start_conversation" /\ get_next_question) =>
              /\ ret'.question = FirstPresented[current_template]
              /\ current_question' = FirstPresented[current_template]]_vars

\* C20 witness: the late template was bound over a demo conversation that had reached
\* its email question; the response map and the attributes are empty again
C20_Witness ==
    /\ ret.op = "start_conversation"
    /\ current_template = "late"
    /\ current_question = "d3"
    /\ responses = NoResponses
    /\ personal_info = PersonalInfo
    /\ address_info = AddressInfo

\* get_next_question has just returned None with a template bound, called by the
\* client or by process_answer after it recorded an answer
CompletionSignalled ==
    /\ current_template # Null
    /\ ret.question = Null
    /\ \/ ret.op = "get_next_question"
       \/ ret.op = "process_answer" /\ ret.valid

\* C21: whenever get_next_question signals completion with a template bound, every
\* question of the template has an entry in the response map or is skipped by the
\* skip evaluator under the current response map.
C21_CompletionLeavesNothingOpen ==
    CompletionSignalled =>
        \A q \in Range(BoundTemplate.questions) :
            \/ q.id \in DOMAIN responses
            \/ should_skip_question(q, BoundTemplate, responses)

\* C21 witness: get_next_question returns None on the demo template with the marital
\* and the email question answered and the spouse question skipped
C21_Witness ==
    /\ current_template = "demo"
    /\ ret.op = "get_next_question"
    /\ ret.question = Null
    /\ DOMAIN responses = {"d1", "d3"}
    /\ should_skip_question(QuestionById("d2"), BoundTemplate, responses)

\* C22: the record create_assistance_request returned is a snapshot: no later
\* process_answer, get_next_question or start_conversation changes the responses,
\* the PersonalInfo or the AddressInfo its holder reads in it.
C22_RecordIsSnapshot ==
    [][(/\ issued # NoRequest
        /\ issued' # NoRequest
        /\ ret'.op \in {"process_answer", "get_next_question", "start_conversation"})
          => issued' = issued]_vars

\* C23: two instances are isolated: every operation on one instance leaves the
\* bound template, the current question, the response map, the accumulators and the
\* record of the other instance unchanged, also when both are bound to one template.
C23_InstancesIsolated ==
    [][turn_to_other \/ other' = other]_vars

\* C23 witness: both instances are bound to the marital template, the one called last
\* has recorded two answers and the other, one
C23_Witness ==
    /\ current_template = "marital"
    /\ other.current_template = "marital"
    /\ ret.op = "process_answer" /\ ret.valid
    /\ DOMAIN responses = {"m1", "m2"}
    /\ DOMAIN other.responses = {"m1"}

\* C24: process_answer called while no current question is set returns its refusal
\* (not valid, no suggestion), records nothing and leaves the bound template, the
\* current question, the response map, the accumulators and the record unchanged.
C24_NoCurrentQuestionRefused ==
    [][\A u \in Inputs, reply \in JudgeReplies :
          (current_question = Null /\ process_answer(u, reply)) =>
              /\ ret'.result = "no_current_question"
              /\ ~ret'.valid
              /\ ret'.suggestion = "None"
              /\ UNCHANGED <<session, issued>>]_vars

\* C24 witness: a template is bound, get_next_question was not called yet, and
\* process_answer has returned its refusal
C24_Witness ==
    /\ ret.op = "process_answer"
    /\ ret.result = "no_current_question"
    /\ current_template # Null
    /\ current_question = Null
    /\ responses = NoResponses

\* the questions the phone branch of _validate_answer takes: the phone kind, or a
\* prompt that mentions a phone
PhoneQuestionIds ==
    {q.id : q \in {x \in AllQuestions :
                      \/ Contains(Lower(x.field_type), <<"p","h","o","n","e">>)
                      \/ Contains(Lower(x.question_text), <<"p","h","o","n","e">>)}}

\* the number of digit characters of an answer
DigitCount(s) == Cardinality({i \in DOMAIN s : s[i] \in DigitSet})

\* an answer made of digits and of the separators space, hyphen and parentheses
DigitsAndSeparators(s) == \A i \in DOMAIN s : s[i] \in DigitSet \cup {" ", "-", "(", ")"}

\* C25: for a phone question the validator rejects every answer with fewer than 10
\* digit characters, and it does not reject for its format an answer of at least 10
\* digits with separators between them.
C25_PhoneNeedsTenDigits ==
    (probe.question \in PhoneQuestionIds /\ probe.verdict # Reject("not_run")) =>
        /\ DigitCount(probe.answer) < 10 => ~probe.verdict.valid
        /\ (DigitCount(probe.answer) >= 10 /\ DigitsAndSeparators(probe.answer))
              => probe.verdict.suggestion # "valid_phone_number"

\* the inputs that are empty or whitespace-only
BlankInputs == {u \in Inputs : Len(Strip(u)) = 0}

\* C26: an empty or whitespace-only input is always rejected with the request to
\* provide an answer, so in every reachable state no recorded answer of the response
\* map is empty or whitespace-only.
C26_NoBlankAnswerRecorded ==
    /\ [](\A qid \in DOMAIN responses : Len(Strip(responses[qid])) > 0)
    /\ [][\A u \in BlankInputs, reply \in JudgeReplies :
             (/\ ret'.op = "process_answer"
              /\ current_question # Null
              /\ process_answer(u, reply)) =>
                 /\ ~ret'.valid
                 /\ ret'.suggestion = "provide_an_answer"
                 /\ responses' = responses]_vars

\* C26 witness: a whitespace-only input was refused in a conversation that has
\* recorded an answer and has a current question
C26_Witness ==
    /\ ret.op = "process_answer"
    /\ ret.suggestion = "provide_an_answer"
    /\ current_question # Null
    /\ responses # NoResponses

\* the questions of the bound template the skip evaluator does not skip under the
\* current response map
NotSkipped ==
    {q.id : q \in {x \in Range(BoundTemplate.questions) :
                      ~should_skip_question(x, BoundTemplate, responses)}}

\* C27: when the conversation has run to completion the recorded responses are as
\* many as the questions _should_skip_question does not skip under the final response
\* map: the answered questions are exactly the questions not skipped.
C27_AnsweredAreTheNotSkipped ==
    CompletionSignalled =>
        /\ Cardinality(DOMAIN responses) = Cardinality(NotSkipped)
        /\ DOMAIN responses = NotSkipped

\* C28: after a template is bound, if every presented question eventually receives an
\* accepted input, the session reaches completion; until then every accepted answer
\* adds the entry of a question of the template, so completion takes at most as many
\* accepted answers as the template has questions; and no question that has an entry
\* is presented.
C28_ConversationCompletes ==
    /\ (current_template # Null) ~> Completed
    /\ [][(AcceptStep /\ ~Completed) =>
             /\ current_question \notin DOMAIN responses
             /\ DOMAIN responses' = DOMAIN responses \cup {current_question}]_vars
    /\ [](current_template # Null =>
             /\ DOMAIN responses \subseteq {q.id : q \in Range(BoundTemplate.questions)}
             /\ Cardinality(DOMAIN responses) <= Len(BoundTemplate.questions))
    /\ [](ret.question # Null => ret.question \notin DOMAIN responses)

\* C28 witness: the late template is completed with both questions answered, the
\* first of them after the second, and get_next_question returns None
C28_Witness ==
    /\ current_template = "late"
    /\ Completed
    /\ ret.op = "get_next_question"
    /\ ret.question = Null
    /\ DOMAIN responses = {"l1", "l2"}
    /\ current_question = "l1"

\* the Equals questions of the bound template whose rule is satisfied and that have
\* no entry yet
EqualsQuestionsDue ==
    {q \in EqualsQuestions : EqualsRuleSatisfied(q) /\ q.id \notin DOMAIN responses}

\* C29: a question with an Equals rule becomes current_question only when the
\* referenced question has a recorded answer equal to the expected value; and once
\* that answer is recorded, also when the referenced question comes later in the
\* template, the Equals question is presented before completion is signalled: an
\* accepted answer that leaves such a question due returns a question, and
\* completion is never signalled while one is due.
C29_EqualsQuestionDeferred ==
    /\ [][(current_question' # current_question /\ current_template' # Null) =>
             \A q \in EqualsQuestions' :
                 q.id = current_question' => EqualsRuleSatisfied(q)']_vars
    /\ [][(AcceptStep /\ current_template' # Null /\ EqualsQuestionsDue' # {}) =>
             /\ ret'.question # Null
             /\ current_question' = ret'.question]_vars
    /\ [](CompletionSignalled => EqualsQuestionsDue = {})

\* C29 witness: on the late template the first question, whose rule refers to the
\* question after it, is presented by the call that records "Yes" to that question
C29_Witness ==
    /\ current_template = "late"
    /\ DOMAIN responses = {"l2"}
    /\ responses["l2"] = U_Yes
    /\ ret.op = "process_answer"
    /\ ret.valid
    /\ ret.question = "l1"
    /\ current_question = "l1"

\* the prompt of a question contains a keyword one of the heuristics looks for in
\* answered questions: court case, married or marital, program and enrolled, benefit
HeuristicPrompt(q) ==
    \/ TextHas(q, <<"c","o","u","r","t"," ","c","a","s","e">>)
    \/ TextHas(q, <<"m","a","r","r","i","e","d">>)
    \/ TextHas(q, <<"m","a","r","i","t","a","l">>)
    \/ TextHas(q, <<"p","r","o","g","r","a","m">>) /\ TextHas(q, <<"e","n","r","o","l","l","e","d">>)
    \/ TextHas(q, <<"b","e","n","e","f","i","t">>)

\* C30: a question without an explicit branch rule is skipped only when an answered
\* question of the template has a prompt with the keyword of a heuristic: answers to
\* questions whose prompts match none of the keywords cause no skip.
C30_HeuristicSkipNeedsKeywordPrompt ==
    current_template # Null =>
        \A q \in Range(BoundTemplate.questions) :
            (NoLogic(q) /\ should_skip_question(q, BoundTemplate, responses)) =>
                \E x \in Range(BoundTemplate.questions) :
                    Answered(x, responses) /\ HeuristicPrompt(x)

\* the answer equals, ignoring case and surrounding whitespace, one of the listed
\* choices of the question
EqualsAChoice(answer, question) ==
    \E i \in DOMAIN question.field_responses :
        Strip(Lower(answer)) = Strip(Lower(question.field_responses[i]))

\* the inputs that equal a choice of the single-choice question k1
ChoiceTexts == {u \in ChoiceInputs : EqualsAChoice(u, QuestionById("k1"))}

\* C31: on a single-choice question, process_answer accepts and records every text
\* that equals one of the listed choices up to case and surrounding whitespace.
C31_ChoiceTextAccepted ==
    [][\A u \in ChoiceTexts, reply \in JudgeReplies :
          (current_question = "k1" /\ current_template = "choice"
              /\ process_answer(u, reply)) =>
                 /\ ret'.valid
                 /\ responses' = Store(responses, "k1", u)]_vars

\* the ids of the questions of the bound template
BoundQuestionIds == {q.id : q \in Range(BoundTemplate.questions)}

\* C32: with a template bound, every key of the response map is the id of a question
\* of that template, and current_question, when set, is a question of that template,
\* also after start_conversation has bound a different template.
C32_SessionWithinBoundTemplate ==
    current_template # Null =>
        /\ DOMAIN responses \subseteq BoundQuestionIds
        /\ current_question # Null => current_question \in BoundQuestionIds

\* the email-kind questions of the bound template that have an entry
RecordedEmailQuestions ==
    {q \in Range(BoundTemplate.questions) :
        Lower(q.field_type) = S_email /\ q.id \in DOMAIN responses}

\* C34: in the engine the client interface imports, the recorded answer of every
\* email-kind question matches local@domain.tld, whatever the language service
\* replies and when it fails.
C34_RecordedEmailMatchesPattern ==
    (engine = "chatbot_engine_new" /\ current_template # Null) =>
        \A q \in RecordedEmailQuestions : MatchesEmail(responses[q.id])

\* the attribute is unset, or holds the answer recorded for a question whose prompt
\* selects the attribute
HoldsRecordedAnswer(info, f) ==
    info[f] # None =>
        \E qid \in DOMAIN responses : FieldTable[qid] = f /\ responses[qid] = info[f]

\* C35: every PersonalInfo/AddressInfo attribute that is set equals the answer
\* recorded in the response map for a question whose prompt carries the attribute's
\* keyword; it is the most recently accepted one, as every accepted answer to such a
\* question is assigned to the attribute; and no other call than an accepted answer
\* or a new start changes an attribute, so no attribute holds a value that was not
\* accepted.
C35_AttributesFollowResponses ==
    /\ [](/\ \A f \in PersonalFields : HoldsRecordedAnswer(personal_info, f)
          /\ \A f \in AddressFields : HoldsRecordedAnswer(address_info, f))
    /\ [][(AcceptStep /\ current_question # Null) =>
             /\ FieldTable[current_question] \in PersonalFields =>
                    personal_info'[FieldTable[current_question]]
                        = responses'[current_question]
             /\ FieldTable[current_question] \in AddressFields =>
                    address_info'[FieldTable[current_question]]
                        = responses'[current_question]]_vars
    /\ [][(~AcceptStep /\ ret'.op # "start_conversation") =>
             UNCHANGED <<personal_info, address_info>>]_vars

\* C35 witness: both phone questions are answered, with different numbers, and the
\* phone attribute holds the answer of the second
C35_Witness ==
    /\ current_template = "phone"
    /\ DOMAIN responses = {"p1", "p2"}
    /\ responses["p1"] = U_phone_plain
    /\ responses["p2"] = U_phone_dashes
    /\ personal_info["person_phone_number"] = U_phone_dashes

\* the stored versions of an organization that have is_active = True
ActiveVersions(organization) ==
    {ref \in Stored(data_manager) :
        /\ data_manager.objects[ref].organization = organization
        /\ data_manager.objects[ref].is_active}

\* the keys without a version suffix that the store uses for an organization: the
\* key save_template computes, and for the loaded organization the key of excel_files
MainKeys(organization) ==
    {org_key(organization)} \cup
        (IF organization = O_broomfield THEN {<<"b","r","o","o","m","f","i","e","l","d">>} ELSE {})

\* C36: after any sequence of save_template and set_active_template calls, at most
\* one stored template version of an organization has is_active = True, and the main
\* key of the organization maps to that version.
C36_OneActiveVersionUnderMainKey ==
    \A organization \in Organizations :
        /\ Cardinality(ActiveVersions(organization)) <= 1
        /\ \A ref \in ActiveVersions(organization) :
              \E key \in MainKeys(organization) :
                  /\ HasKey(data_manager.templates, key)
                  /\ ValueOf(data_manager.templates, key) = ref

\* how often an object is in a list
Occurrences(list, ref) == Cardinality({i \in DOMAIN list : list[i] = ref})

\* the versions of the same template handed to save_template before the object
EarlierVersions(ref) ==
    {r \in 1..(ref - 1) :
        \/ r = data_manager.objects[ref].base_template_id
        \/ data_manager.objects[r].base_template_id
              = data_manager.objects[ref].base_template_id}

\* C37: after any sequence of saves, get_template_versions of an organization
\* returns every version saved for it so far exactly once, and a version saved as
\* an edit has a number one greater than the highest earlier version of its template.
C37_EveryVersionRetainedOnce ==
    \A ref \in DOMAIN data_manager.objects :
        /\ Occurrences(get_template_versions(data_manager,
                           data_manager.objects[ref].organization), ref) = 1
        /\ data_manager.objects[ref].base_template_id # NoId =>
              data_manager.objects[ref].version =
                  1 + MaxOf({data_manager.objects[r].version : r \in EarlierVersions(ref)})

\* the chat of a started conversation is on the page
ChatShown ==
    /\ session_state.authenticated
    /\ session_state.interface_type = "client"
    /\ session_state.user_info # Null
    /\ session_state.conversation_started

\* C33: in the client chat interface, whenever a conversation is started and the
\* engine has no question left to present (get_next_question returns None), the
\* completion interface is shown and not the answer input, also for templates in
\* which a question is skipped.
C33_CompletionShownWhenNothingLeft ==
    (ChatShown /\ current_template # Null
        /\ next_question_new(BoundTemplate, responses) = Null)
            => main = "completion_interface"

\* C38: the conversation the client interface shows belongs to a template of the
\* authenticated user's template list: the bound template and the chat messages are
\* of one of the user's forms, also after a logout and the login of another user.
C38_ConversationOfCurrentUser ==
    ChatShown =>
        /\ current_template # Null => KeyOfForm(current_template) \in get_user_templates
        /\ Len(session_state.messages) > 0 =>
              session_state.messages[1] \in get_user_templates

====
